---- MODULE Spec2Model ----
(***************************************************************************)
(* AcceptLND: the policy evaluation engine (package policy) and the        *)
(* channel-acceptor loop of package main that drives it.                   *)
(*                                                                         *)
(* Go values are modelled as follows.                                      *)
(*   - A pointer field that may be nil (every optional rule) is a sequence *)
(*     of length at most one: Nil is the nil pointer, Some(v) points at v. *)
(*   - A slice is a sequence, a struct is a record.                        *)
(*   - An error is a sequence of the tokens of its message; NoErr (the     *)
(*     empty sequence) is the nil error.                                   *)
(*   - A string that the code takes apart (a node address) is the sequence *)
(*     of its tokens.                                                      *)
(***************************************************************************)
EXTENDS Integers, Sequences, FiniteSets, TLC

VARIABLES
    config,     \* config.Policies: the ordered policy list, loaded once
    pc,         \* position of the running goroutine
    req,        \* the request being handled
    node,       \* the local node info fetched for it (GetInfo)
    peer,       \* the peer node info fetched for it (GetNodeInfo)
    resp,       \* the response under construction / sent
    resp0,      \* the response as it was when the current call started
    err,        \* the error returned by the current call
    ran,        \* the checks the last Policy.Evaluate call executed, in order
    env,        \* what the last evaluation read besides its arguments
    i,          \* handleRequest: index of the next policy of the range loop
    evals,      \* handleRequest: the errors the policies returned so far
    matched,    \* the result of the last direct Conditions.Match call
    sent,       \* the response last sent on the stream (Nil once the next
                \* request is received)
    call,       \* a direct call of one function of the package: its name,
                \* its arguments and the results it returned so far
    procs       \* concurrent evaluations: the locals of each goroutine

vars == <<config, pc, req, node, peer, resp, resp0, err, ran, env, i, evals,
          matched, sent, call, procs>>

----------------------------------------------------------------------------
(* Optional values and small helpers *)

Nil == <<>>

Some(v) == <<v>>

Val(o) == o[1]

InList(list, x) == \E k \in 1..Len(list) : list[k] = x

NoErr == <<>>

\* errors.New(text): an error with a fixed message
Error(text) == <<text>>

----------------------------------------------------------------------------
(* policy/range.go: Range *)

\* A fault of Contains: the lower bound is exclusive
Range_Contains_ExclusiveMin(r, v) ==
    IF r.Min # Nil /\ v <= Val(r.Min) THEN FALSE
    ELSE IF r.Max # Nil /\ v > Val(r.Max) THEN FALSE
    ELSE TRUE

\* Range[T].Contains
Range_Contains(r, v) ==
    IF r.Min # Nil /\ v < Val(r.Min) THEN FALSE
    ELSE IF r.Max # Nil /\ v > Val(r.Max) THEN FALSE
    ELSE TRUE

\* Range[T].Reason
Range_Reason(r) ==
    IF r.Min # Nil /\ r.Max # Nil
        THEN <<"is not between", Val(r.Min), "and", Val(r.Max)>>
    ELSE IF r.Min # Nil THEN <<"is lower than", Val(r.Min)>>
    ELSE IF r.Max # Nil THEN <<"is higher than", Val(r.Max)>>
    ELSE <<>>

\* check: a nil range accepts every value
check(r, v) ==
    IF r = Nil THEN TRUE ELSE Range_Contains(Val(r), v)

----------------------------------------------------------------------------
(* policy/request.go *)

\* Request.checkCommitmentType
Request_checkCommitmentType(r, commitmentType) ==
    IF r.CommitmentTypes = Nil THEN TRUE
    ELSE InList(Val(r.CommitmentTypes), commitmentType)

\* A fault of evaluate: the channel reserve is checked before the push amount
Request_evaluate_ReserveFirst(r, rq) ==
    IF r = Nil THEN NoErr
    ELSE LET R == Val(r) IN
    IF ~check(R.ChannelCapacity, rq.FundingAmt)
        THEN <<"Channel capacity">> \o Range_Reason(Val(R.ChannelCapacity))
    ELSE IF ~check(R.ChannelReserve, rq.ChannelReserve)
        THEN <<"Channel reserve">> \o Range_Reason(Val(R.ChannelReserve))
    ELSE IF ~check(R.PushAmount, rq.PushAmt)
        THEN Error("Pushed amount lower than expected")
    ELSE IF ~check(R.CSVDelay, rq.CsvDelay)
        THEN <<"Check sequence verify delay">> \o Range_Reason(Val(R.CSVDelay))
    ELSE IF ~check(R.MaxAcceptedHTLCs, rq.MaxAcceptedHtlcs)
        THEN <<"Maximum accepted HTLCs">> \o Range_Reason(Val(R.MaxAcceptedHTLCs))
    ELSE IF ~check(R.MinHTLC, rq.MinHtlc)
        THEN <<"Minimum HTLCs">> \o Range_Reason(Val(R.MinHTLC))
    ELSE IF ~check(R.MaxValueInFlight, rq.MaxValueInFlight)
        THEN <<"Maximum value in flight">> \o Range_Reason(Val(R.MaxValueInFlight))
    ELSE IF ~check(R.DustLimit, rq.DustLimit)
        THEN <<"Commitment transaction dust limit">> \o Range_Reason(Val(R.DustLimit))
    ELSE IF ~Request_checkCommitmentType(R, rq.CommitmentType)
        THEN <<"Commitment type is not in", Val(R.CommitmentTypes)>>
    ELSE NoErr

\* Request.evaluate: r is the *Request (Nil or Some(record))
Request_evaluate(r, rq) ==
    IF r = Nil THEN NoErr
    ELSE LET R == Val(r) IN
    IF ~check(R.ChannelCapacity, rq.FundingAmt)
        THEN <<"Channel capacity">> \o Range_Reason(Val(R.ChannelCapacity))
    ELSE IF ~check(R.PushAmount, rq.PushAmt)
        THEN Error("Pushed amount lower than expected")
    ELSE IF ~check(R.ChannelReserve, rq.ChannelReserve)
        THEN <<"Channel reserve">> \o Range_Reason(Val(R.ChannelReserve))
    ELSE IF ~check(R.CSVDelay, rq.CsvDelay)
        THEN <<"Check sequence verify delay">> \o Range_Reason(Val(R.CSVDelay))
    ELSE IF ~check(R.MaxAcceptedHTLCs, rq.MaxAcceptedHtlcs)
        THEN <<"Maximum accepted HTLCs">> \o Range_Reason(Val(R.MaxAcceptedHTLCs))
    ELSE IF ~check(R.MinHTLC, rq.MinHtlc)
        THEN <<"Minimum HTLCs">> \o Range_Reason(Val(R.MinHTLC))
    ELSE IF ~check(R.MaxValueInFlight, rq.MaxValueInFlight)
        THEN <<"Maximum value in flight">> \o Range_Reason(Val(R.MaxValueInFlight))
    ELSE IF ~check(R.DustLimit, rq.DustLimit)
        THEN <<"Commitment transaction dust limit">> \o Range_Reason(Val(R.DustLimit))
    ELSE IF ~Request_checkCommitmentType(R, rq.CommitmentType)
        THEN <<"Commitment type is not in", Val(R.CommitmentTypes)>>
    ELSE NoErr

----------------------------------------------------------------------------
(* policy/range.go: StatRange and the reducing operations.                 *)
(* T names the Go type the generic code is instantiated with.  A uint32    *)
(* wraps modulo 2^32; Uint32Mod is that modulus, scaled down so that the   *)
(* wrap-around is within reach of small values.  A float64 is held in      *)
(* units of 1/FloatUnit, so that the same arithmetic divides it exactly    *)
(* where an integer type truncates.                                        *)

Uint32Mod == 2 ^ 4

FloatUnit == 3 * 4

Wrap(T, x) == IF T = "uint32" THEN x % Uint32Mod ELSE x

\* Go's integer division truncates toward zero
GoDiv(a, b) == IF a >= 0 THEN a \div b ELSE -((-a) \div b)

RECURSIVE SumSeq(_)
SumSeq(values) ==
    IF values = <<>> THEN 0 ELSE Head(values) + SumSeq(Tail(values))

\* slices.Sort
Sort(values) == SortSeq(values, LAMBDA a, b : a < b)

Count(values, v) == Cardinality({k \in 1..Len(values) : values[k] = v})

KeysOf(values) == {values[k] : k \in 1..Len(values)}

median(T, values) ==
    IF Len(values) = 0 THEN 0
    ELSE LET sorted == Sort(values)
             l == Len(values)
         IN IF l % 2 = 0
                THEN GoDiv(Wrap(T, sorted[l \div 2] + sorted[(l \div 2) + 1]), 2)
                ELSE sorted[(l \div 2) + 1]

mean(T, values) ==
    IF Len(values) = 0 THEN 0
    ELSE GoDiv(Wrap(T, SumSeq(values)), Len(values))

RECURSIVE SetToSeqAsc(_)
SetToSeqAsc(S) ==
    IF S = {} THEN <<>>
    ELSE LET m == CHOOSE x \in S : \A y \in S : x <= y
         IN <<m>> \o SetToSeqAsc(S \ {m})

\* The order in which a range statement visits the keys of the occurrences
\* map is not defined by the language: order lists the keys in the order of
\* this visit (keys it does not list follow, ascending).
MapVisit(keys, order) ==
    LET inOrder == SelectSeq(order, LAMBDA v : v \in keys)
        rest == SetToSeqAsc(keys \ KeysOf(order))
    IN inOrder \o rest

RECURSIVE modeLoop(_, _, _)
modeLoop(values, visit, highest) ==
    IF visit = <<>> THEN highest
    ELSE LET value == Head(visit)
         IN IF Count(values, value) > Count(values, highest)
                THEN modeLoop(values, Tail(visit), value)
                ELSE modeLoop(values, Tail(visit), highest)

\* A fault of mode: the key visited first is returned
mode_FirstVisited(T, values, order) ==
    IF Len(values) = 0 THEN 0
    ELSE Head(MapVisit(KeysOf(values), order))

mode(T, values, order) ==
    IF Len(values) = 0 THEN 0
    ELSE modeLoop(values, MapVisit(KeysOf(values), order), 0)

rangeOp(T, values) ==
    IF Len(values) < 2 THEN 0
    ELSE LET sorted == Sort(values)
         IN Wrap(T, sorted[Len(values)] - sorted[1])

\* A fault of Contains: a rule has nothing to say about an empty list
StatRange_Contains_EmptyPasses(T, a, values, order) ==
    LET v == IF a.Operation = "median" THEN median(T, values)
             ELSE IF a.Operation = "mode" THEN mode(T, values, order)
             ELSE IF a.Operation = "range" THEN rangeOp(T, values)
             ELSE mean(T, values)
    IN Len(values) = 0 \/ Range_Contains([Min |-> a.Min, Max |-> a.Max], v)

\* StatRange[T].Contains
StatRange_Contains(T, a, values, order) ==
    LET v == IF a.Operation = "median" THEN median(T, values)
             ELSE IF a.Operation = "mode" THEN mode(T, values, order)
             ELSE IF a.Operation = "range" THEN rangeOp(T, values)
             ELSE mean(T, values)
    IN Range_Contains([Min |-> a.Min, Max |-> a.Max], v)

\* StatRange[T].Reason
StatRange_Reason(a) ==
    <<IF a.Operation = "" THEN "mean" ELSE a.Operation, "value">>
        \o Range_Reason([Min |-> a.Min, Max |-> a.Max])

----------------------------------------------------------------------------
(* policy/channels.go.                                                     *)
(* A channel edge is [ChannelId, Capacity, Node1Pub, Node2Pub,             *)
(* Node1Policy, Node2Policy]; a routing policy pointer may be nil.  The    *)
(* channel id is <<block height, transaction index, output index>>, the    *)
(* three fields packed into its 64 bits.  Reading a field through a nil    *)
(* routing policy is a runtime fault (Panic): it is no returned error, it  *)
(* unwinds every caller.                                                   *)

Panic == <<"panic", "invalid memory address or nil pointer dereference">>

\* channel.ChannelId >> 40: the block height
ShiftRight40(channelId) == channelId[1]

\* A fault of getNodePolicy: the direction is ignored
getNodePolicy_IgnoresDirection(peerPublicKey, channel, outgoing) ==
    IF peerPublicKey = channel.Node1Pub
        THEN channel.Node1Policy
        ELSE channel.Node2Policy

getNodePolicy(peerPublicKey, channel, outgoing) ==
    IF outgoing
        THEN IF peerPublicKey = channel.Node1Pub
                THEN channel.Node1Policy
                ELSE channel.Node2Policy
        ELSE IF peerPublicKey = channel.Node2Pub
                THEN channel.Node1Policy
                ELSE channel.Node2Policy

capacityFunc(channel) == channel.Capacity

blockHeightFunc(channel) == ShiftRight40(channel.ChannelId)

timeLockDeltaFunc(p, channel) ==
    Val(getNodePolicy(p.Node.PubKey, channel, TRUE)).TimeLockDelta

minHTLCFunc(p, channel) ==
    Val(getNodePolicy(p.Node.PubKey, channel, TRUE)).MinHtlc

maxHTLCFunc(p, channel) ==
    GoDiv(Val(getNodePolicy(p.Node.PubKey, channel, TRUE)).MaxHtlcMsat, 1000)

lastUpdateFunc(p, now, channel) ==
    Wrap("uint32", Wrap("uint32", now)
        - Val(getNodePolicy(p.Node.PubKey, channel, TRUE)).LastUpdate)

feeRatesFunc(p, outgoing, channel) ==
    GoDiv(Val(getNodePolicy(p.Node.PubKey, channel, outgoing)).FeeRateMilliMsat, 1000)

baseFeesFunc(p, outgoing, channel) ==
    GoDiv(Val(getNodePolicy(p.Node.PubKey, channel, outgoing)).FeeBaseMsat, 1000)

inboundFeeRatesFunc(p, outgoing, channel) ==
    GoDiv(Val(getNodePolicy(p.Node.PubKey, channel, outgoing)).InboundFeeRateMilliMsat, 1000)

inboundBaseFeesFunc(p, outgoing, channel) ==
    GoDiv(Val(getNodePolicy(p.Node.PubKey, channel, outgoing)).InboundFeeBaseMsat, 1000)

\* checkStat: one value per channel edge, in list order, then Contains
checkStat(T, sr, p, f(_), order) ==
    IF sr = Nil THEN TRUE
    ELSE StatRange_Contains(T, Val(sr),
            [k \in 1..Len(p.Channels) |-> f(p.Channels[k])], order)

\* The loop of a configured check reads the selected routing policy of every
\* channel edge: it faults at the first edge whose policy is nil.
nilPolicy(p, outgoing) ==
    \E k \in 1..Len(p.Channels) :
        getNodePolicy(p.Node.PubKey, p.Channels[k], outgoing) = Nil

statFaults(sr, p, outgoing) == sr # Nil /\ nilPolicy(p, outgoing)

\* A fault of the loop: an edge without a routing policy is passed over
RECURSIVE zeroBaseFeesLoop_SkipsNil(_, _)
zeroBaseFeesLoop_SkipsNil(p, k) ==
    IF k > Len(p.Channels) THEN "true"
    ELSE LET policy == getNodePolicy(p.Node.PubKey, p.Channels[k], TRUE)
         IN IF policy = Nil THEN zeroBaseFeesLoop_SkipsNil(p, k + 1)
            ELSE IF Val(policy).FeeBaseMsat # 0 THEN "false"
            ELSE zeroBaseFeesLoop_SkipsNil(p, k + 1)

\* The loop of checkZeroBaseFees from edge k on: "true", "false" (it returns
\* at the first non-zero base fee) or "panic"
RECURSIVE zeroBaseFeesLoop(_, _)
zeroBaseFeesLoop(p, k) ==
    IF k > Len(p.Channels) THEN "true"
    ELSE LET policy == getNodePolicy(p.Node.PubKey, p.Channels[k], TRUE)
         IN IF policy = Nil THEN "panic"
            ELSE IF Val(policy).FeeBaseMsat # 0 THEN "false"
            ELSE zeroBaseFeesLoop(p, k + 1)

\* Channels.checkZeroBaseFees: the configured value itself is never read
Channels_checkZeroBaseFees(c, p) ==
    IF c.ZeroBaseFees = Nil THEN TRUE
    ELSE zeroBaseFeesLoop(p, 1) = "true"

zeroBaseFeesFaults(c, p) ==
    c.ZeroBaseFees # Nil /\ zeroBaseFeesLoop(p, 1) = "panic"

\* Channels.checkTogether
Channels_checkTogether(c, nodePublicKey, p) ==
    IF c.Together = Nil THEN TRUE
    ELSE LET count == Cardinality({k \in 1..Len(p.Channels) :
                \/ /\ nodePublicKey = p.Channels[k].Node1Pub
                   /\ p.Node.PubKey = p.Channels[k].Node2Pub
                \/ /\ nodePublicKey = p.Channels[k].Node2Pub
                   /\ p.Node.PubKey = p.Channels[k].Node1Pub})
         IN Range_Contains(Val(c.Together), count)

disabledChannels(p, outgoing) ==
    [k \in 1..Len(p.Channels) |->
        IF Val(getNodePolicy(p.Node.PubKey, p.Channels[k], outgoing)).Disabled
            THEN FloatUnit ELSE 0]

\* Channels.checkIncomingDisabled
Channels_checkIncomingDisabled(c, p, order) ==
    IF c.IncomingDisabled = Nil THEN TRUE
    ELSE StatRange_Contains("float64", Val(c.IncomingDisabled),
            disabledChannels(p, FALSE), order)

\* Channels.checkOutgoingDisabled
Channels_checkOutgoingDisabled(c, p, order) ==
    IF c.OutgoingDisabled = Nil THEN TRUE
    ELSE StatRange_Contains("float64", Val(c.OutgoingDisabled),
            disabledChannels(p, TRUE), order)

\* Channels.evaluate: ch is the *Channels (Nil or Some(record)); e holds the
\* clock reading (time.Now().Unix()) and the map iteration order
Channels_evaluate(ch, nodePublicKey, p, e) ==
    IF ch = Nil THEN NoErr
    ELSE LET c == Val(ch) IN
    IF ~check(c.Number, p.NumChannels)
        THEN <<"Node number of channels">> \o Range_Reason(Val(c.Number))
    ELSE IF ~checkStat("int64", c.Capacity, p, capacityFunc, e.order)
        THEN <<"Capacity">> \o StatRange_Reason(Val(c.Capacity))
    ELSE IF zeroBaseFeesFaults(c, p) THEN Panic
    ELSE IF ~Channels_checkZeroBaseFees(c, p)
        THEN Error("Node has channels with base fees higher than zero")
    ELSE IF ~checkStat("uint32", c.BlockHeight, p, blockHeightFunc, e.order)
        THEN <<"Block height">> \o StatRange_Reason(Val(c.BlockHeight))
    ELSE IF statFaults(c.TimeLockDelta, p, TRUE) THEN Panic
    ELSE IF ~checkStat("uint32", c.TimeLockDelta, p,
                LAMBDA x : timeLockDeltaFunc(p, x), e.order)
        THEN <<"Time lock delta">> \o StatRange_Reason(Val(c.TimeLockDelta))
    ELSE IF statFaults(c.MinHTLC, p, TRUE) THEN Panic
    ELSE IF ~checkStat("int64", c.MinHTLC, p,
                LAMBDA x : minHTLCFunc(p, x), e.order)
        THEN <<"Channels minimum HTLC">> \o StatRange_Reason(Val(c.MinHTLC))
    ELSE IF statFaults(c.MaxHTLC, p, TRUE) THEN Panic
    ELSE IF ~checkStat("uint64", c.MaxHTLC, p,
                LAMBDA x : maxHTLCFunc(p, x), e.order)
        THEN <<"Channels maximum HTLC">> \o StatRange_Reason(Val(c.MaxHTLC))
    ELSE IF statFaults(c.LastUpdateDiff, p, TRUE) THEN Panic
    ELSE IF ~checkStat("uint32", c.LastUpdateDiff, p,
                LAMBDA x : lastUpdateFunc(p, e.now, x), e.order)
        THEN <<"Channels last update">> \o StatRange_Reason(Val(c.LastUpdateDiff))
    ELSE IF ~Channels_checkTogether(c, nodePublicKey, p)
        THEN <<"Channels together">> \o Range_Reason(Val(c.Together))
    ELSE IF statFaults(c.IncomingFeeRates, p, FALSE) THEN Panic
    ELSE IF ~checkStat("int64", c.IncomingFeeRates, p,
                LAMBDA x : feeRatesFunc(p, FALSE, x), e.order)
        THEN <<"Incoming fee rates">> \o StatRange_Reason(Val(c.IncomingFeeRates))
    ELSE IF statFaults(c.OutgoingFeeRates, p, TRUE) THEN Panic
    ELSE IF ~checkStat("int64", c.OutgoingFeeRates, p,
                LAMBDA x : feeRatesFunc(p, TRUE, x), e.order)
        THEN <<"Outgoing fee rates">> \o StatRange_Reason(Val(c.OutgoingFeeRates))
    ELSE IF statFaults(c.IncomingBaseFees, p, FALSE) THEN Panic
    ELSE IF ~checkStat("int64", c.IncomingBaseFees, p,
                LAMBDA x : baseFeesFunc(p, FALSE, x), e.order)
        THEN <<"Incoming base fees">> \o StatRange_Reason(Val(c.IncomingBaseFees))
    ELSE IF statFaults(c.OutgoingBaseFees, p, TRUE) THEN Panic
    ELSE IF ~checkStat("int64", c.OutgoingBaseFees, p,
                LAMBDA x : baseFeesFunc(p, TRUE, x), e.order)
        THEN <<"Outgoing base fees">> \o StatRange_Reason(Val(c.OutgoingBaseFees))
    ELSE IF statFaults(c.IncomingInboundFeeRates, p, FALSE) THEN Panic
    ELSE IF ~checkStat("int32", c.IncomingInboundFeeRates, p,
                LAMBDA x : inboundFeeRatesFunc(p, FALSE, x), e.order)
        THEN <<"Incoming inbound fee rates">>
                \o StatRange_Reason(Val(c.IncomingInboundFeeRates))
    ELSE IF statFaults(c.OutgoingInboundFeeRates, p, TRUE) THEN Panic
    ELSE IF ~checkStat("int32", c.OutgoingInboundFeeRates, p,
                LAMBDA x : inboundFeeRatesFunc(p, TRUE, x), e.order)
        THEN <<"Outgoing inbound fee rates">>
                \o StatRange_Reason(Val(c.OutgoingInboundFeeRates))
    ELSE IF statFaults(c.IncomingInboundBaseFees, p, FALSE) THEN Panic
    ELSE IF ~checkStat("int32", c.IncomingInboundBaseFees, p,
                LAMBDA x : inboundBaseFeesFunc(p, FALSE, x), e.order)
        THEN <<"Incoming inbound base fees">>
                \o StatRange_Reason(Val(c.IncomingInboundBaseFees))
    ELSE IF statFaults(c.OutgoingInboundBaseFees, p, TRUE) THEN Panic
    ELSE IF ~checkStat("int32", c.OutgoingInboundBaseFees, p,
                LAMBDA x : inboundBaseFeesFunc(p, TRUE, x), e.order)
        THEN <<"Outgoing inbound base fees">>
                \o StatRange_Reason(Val(c.OutgoingInboundBaseFees))
    ELSE IF statFaults(c.IncomingDisabled, p, FALSE) THEN Panic
    ELSE IF ~Channels_checkIncomingDisabled(c, p, e.order)
        THEN <<"Incoming disabled channels">>
                \o StatRange_Reason(Val(c.IncomingDisabled))
    ELSE IF statFaults(c.OutgoingDisabled, p, TRUE) THEN Panic
    ELSE IF ~Channels_checkOutgoingDisabled(c, p, e.order)
        THEN <<"Outgoing disabled channels">>
                \o StatRange_Reason(Val(c.OutgoingDisabled))
    ELSE NoErr

----------------------------------------------------------------------------
(* policy/node.go *)

\* math.MaxInt32 on the scale of Uint32Mod
MaxInt32 == (Uint32Mod \div 2) - 1

Min(a, b) == IF a < b THEN a ELSE b

RECURSIVE oldestChannelLoop(_, _, _)
oldestChannelLoop(channels, k, oldestChannel) ==
    IF k > Len(channels) THEN oldestChannel
    ELSE oldestChannelLoop(channels, k + 1,
            Min(ShiftRight40(channels[k].ChannelId), oldestChannel))

\* Node.checkAge
Node_checkAge(n, bestBlockHeight, channels) ==
    IF n.Age = Nil THEN TRUE
    ELSE IF Len(channels) = 0 THEN Range_Contains(Val(n.Age), 0)
    ELSE LET oldestChannel == oldestChannelLoop(channels, 1, MaxInt32)
             age == Wrap("uint32", Wrap("uint32", bestBlockHeight - oldestChannel) + 1)
         IN Range_Contains(Val(n.Age), age)

\* strings.Cut(s, sep): the part of s before the first sep (all of s if none)
Cut(s, sep) ==
    LET at == {k \in 1..Len(s) : s[k] = sep}
    IN IF at = {} THEN s
       ELSE SubSeq(s, 1, (CHOOSE k \in at : \A j \in at : k <= j) - 1)

\* strings.HasSuffix(s, suffix), suffix being one token
HasSuffix(s, suffix) == Len(s) > 0 /\ s[Len(s)] = suffix

\* A fault of checkHybrid: an onion address alone makes the peer hybrid
Node_checkHybrid_TorSuffices(n, addresses) ==
    IF n.Hybrid = Nil THEN TRUE
    ELSE LET hasTor == \E k \in 1..Len(addresses) :
                            HasSuffix(Cut(addresses[k].Addr, ":"), ".onion")
         IN IF hasTor THEN Val(n.Hybrid) ELSE ~Val(n.Hybrid)

\* Node.checkHybrid
Node_checkHybrid(n, addresses) ==
    IF n.Hybrid = Nil THEN TRUE
    ELSE LET hasTor == \E k \in 1..Len(addresses) :
                            HasSuffix(Cut(addresses[k].Addr, ":"), ".onion")
             hasClearnet == \E k \in 1..Len(addresses) :
                            ~HasSuffix(Cut(addresses[k].Addr, ":"), ".onion")
         IN IF hasClearnet /\ hasTor THEN Val(n.Hybrid) ELSE ~Val(n.Hybrid)

\* Node.checkFeatureFlags: features maps a feature bit to its Feature
Node_checkFeatureFlags(n, features) ==
    IF n.FeatureFlags = Nil THEN TRUE
    ELSE \A k \in 1..Len(Val(n.FeatureFlags)) :
            LET flag == Val(n.FeatureFlags)[k]
            IN flag \in DOMAIN features /\ features[flag].IsKnown

\* A fault of evaluate: the hybrid check comes after the feature flags
Node_evaluate_FlagsBeforeHybrid(nd, nodeInfo, p, e) ==
    IF nd = Nil THEN NoErr
    ELSE LET n == Val(nd) IN
    IF ~Node_checkAge(n, nodeInfo.BlockHeight, p.Channels)
        THEN <<"Node age">> \o Range_Reason(Val(n.Age))
    ELSE IF ~check(n.Capacity, p.TotalCapacity)
        THEN <<"Node capacity">> \o Range_Reason(Val(n.Capacity))
    ELSE IF ~Node_checkFeatureFlags(n, p.Node.Features)
        THEN Error("Node doesn't have the desired feature flags")
    ELSE IF ~Node_checkHybrid(n, p.Node.Addresses)
        THEN Error("Node doesn't have both clearnet and tor addresses")
    ELSE Channels_evaluate(n.Channels, nodeInfo.IdentityPubkey, p, e)

\* Node.evaluate: nd is the *Node (Nil or Some(record))
Node_evaluate(nd, nodeInfo, p, e) ==
    IF nd = Nil THEN NoErr
    ELSE LET n == Val(nd) IN
    IF ~Node_checkAge(n, nodeInfo.BlockHeight, p.Channels)
        THEN <<"Node age">> \o Range_Reason(Val(n.Age))
    ELSE IF ~check(n.Capacity, p.TotalCapacity)
        THEN <<"Node capacity">> \o Range_Reason(Val(n.Capacity))
    ELSE IF ~Node_checkHybrid(n, p.Node.Addresses)
        THEN Error("Node doesn't have both clearnet and tor addresses")
    ELSE IF ~Node_checkFeatureFlags(n, p.Node.Features)
        THEN Error("Node doesn't have the desired feature flags")
    ELSE Channels_evaluate(n.Channels, nodeInfo.IdentityPubkey, p, e)

----------------------------------------------------------------------------
(* policy/conditions.go *)

\* lnwire.FFAnnounceChannel
FFAnnounceChannel == 1

\* req.ChannelFlags != uint32(lnwire.FFAnnounceChannel)
IsPrivate(rq) == rq.ChannelFlags # FFAnnounceChannel

\* Conditions.checkIs
Conditions_checkIs(c, publicKey) ==
    IF c.Is = Nil THEN FALSE ELSE InList(Val(c.Is), publicKey)

\* Conditions.checkIsNot
Conditions_checkIsNot(c, publicKey) ==
    IF c.IsNot = Nil THEN TRUE ELSE ~InList(Val(c.IsNot), publicKey)

\* Conditions.checkIsPrivate
Conditions_checkIsPrivate(c, private) ==
    IF c.IsPrivate = Nil THEN TRUE ELSE private = Val(c.IsPrivate)

\* Conditions.checkWantsZeroConf
Conditions_checkWantsZeroConf(c, wantsZeroConf) ==
    IF c.WantsZeroConf = Nil THEN TRUE ELSE wantsZeroConf = Val(c.WantsZeroConf)

\* A fault of Match: the is_not list is consulted before the is list
Conditions_Match_IsNotFirst(cd, rq, nodeInfo, p, e) ==
    IF cd = Nil THEN TRUE
    ELSE LET c == Val(cd) IN
    IF ~Conditions_checkIsNot(c, p.Node.PubKey) THEN FALSE
    ELSE IF Conditions_checkIs(c, p.Node.PubKey) THEN TRUE
    ELSE IF ~Conditions_checkIsPrivate(c, IsPrivate(rq)) THEN FALSE
    ELSE IF ~Conditions_checkWantsZeroConf(c, rq.WantsZeroConf) THEN FALSE
    ELSE IF Request_evaluate(c.Request, rq) # NoErr THEN FALSE
    ELSE IF Node_evaluate(c.Node, nodeInfo, p, e) # NoErr THEN FALSE
    ELSE TRUE

\* Conditions.Match: cd is the *Conditions (Nil or Some(record))
Conditions_Match(cd, rq, nodeInfo, p, e) ==
    IF cd = Nil THEN TRUE
    ELSE LET c == Val(cd) IN
    IF Conditions_checkIs(c, p.Node.PubKey) THEN TRUE
    ELSE IF ~Conditions_checkIsNot(c, p.Node.PubKey) THEN FALSE
    ELSE IF ~Conditions_checkIsPrivate(c, IsPrivate(rq)) THEN FALSE
    ELSE IF ~Conditions_checkWantsZeroConf(c, rq.WantsZeroConf) THEN FALSE
    ELSE IF Request_evaluate(c.Request, rq) # NoErr THEN FALSE
    ELSE IF Node_evaluate(c.Node, nodeInfo, p, e) # NoErr THEN FALSE
    ELSE TRUE

\* Match does not return when the nested Node evaluation faults
matchFaults(cd, rq, nodeInfo, p, e) ==
    /\ cd # Nil
    /\ ~Conditions_checkIs(Val(cd), p.Node.PubKey)
    /\ Conditions_checkIsNot(Val(cd), p.Node.PubKey)
    /\ Conditions_checkIsPrivate(Val(cd), IsPrivate(rq))
    /\ Conditions_checkWantsZeroConf(Val(cd), rq.WantsZeroConf)
    /\ Request_evaluate(Val(cd).Request, rq) = NoErr
    /\ Node_evaluate(Val(cd).Node, nodeInfo, p, e) = Panic

----------------------------------------------------------------------------
(* policy/policy.go *)

\* Policy.checkRejectAll
Policy_checkRejectAll(p) ==
    IF p.RejectAll = Nil THEN TRUE ELSE ~Val(p.RejectAll)

\* A fault of checkAllowList: the result is inverted for a configured list
Policy_checkAllowList_Inverted(p, publicKey) ==
    IF p.AllowList = Nil THEN TRUE ELSE ~InList(Val(p.AllowList), publicKey)

\* Policy.checkAllowList
Policy_checkAllowList(p, publicKey) ==
    IF p.AllowList = Nil THEN TRUE ELSE InList(Val(p.AllowList), publicKey)

\* A fault of checkBlockList: the list is never consulted
Policy_checkBlockList_NeverBlocks(p, publicKey) == TRUE

\* Policy.checkBlockList
Policy_checkBlockList(p, publicKey) ==
    IF p.BlockList = Nil THEN TRUE ELSE ~InList(Val(p.BlockList), publicKey)

\* Policy.checkMaxChannels
Policy_checkMaxChannels(p, numChannels) ==
    IF p.MaxChannels = Nil THEN TRUE ELSE numChannels < Val(p.MaxChannels)

\* Policy.checkPrivate
Policy_checkPrivate(p, private) ==
    IF p.RejectPrivateChannels = Nil \/ ~private THEN TRUE
    ELSE private /\ ~Val(p.RejectPrivateChannels)

\* A fault of checkZeroConf: the accepted zero-conf keeps the staged depth
Policy_checkZeroConf_KeepsDepth(p, publicKey, wantsZeroConf, rs) ==
    IF ~wantsZeroConf THEN [ok |-> TRUE, resp |-> rs]
    ELSE IF p.AcceptZeroConfChannels = Nil \/ ~Val(p.AcceptZeroConfChannels)
        THEN [ok |-> FALSE, resp |-> rs]
    ELSE LET set == [rs EXCEPT !.ZeroConf = TRUE]
         IN IF p.ZeroConfList = Nil THEN [ok |-> TRUE, resp |-> set]
            ELSE [ok |-> InList(Val(p.ZeroConfList), publicKey), resp |-> set]

\* A fault of checkZeroConf: the response is written before the flag is read
Policy_checkZeroConf_WritesFirst(p, publicKey, wantsZeroConf, rs) ==
    IF ~wantsZeroConf THEN [ok |-> TRUE, resp |-> rs]
    ELSE LET set == [rs EXCEPT !.ZeroConf = TRUE, !.MinAcceptDepth = 0]
         IN IF p.AcceptZeroConfChannels = Nil \/ ~Val(p.AcceptZeroConfChannels)
                THEN [ok |-> FALSE, resp |-> set]
            ELSE IF p.ZeroConfList = Nil THEN [ok |-> TRUE, resp |-> set]
            ELSE [ok |-> InList(Val(p.ZeroConfList), publicKey), resp |-> set]

\* A fault of checkZeroConf: an unset accept_zero_conf_channels accepts
Policy_checkZeroConf_NilAccepts(p, publicKey, wantsZeroConf, rs) ==
    IF ~wantsZeroConf THEN [ok |-> TRUE, resp |-> rs]
    ELSE IF p.AcceptZeroConfChannels # Nil /\ ~Val(p.AcceptZeroConfChannels)
        THEN [ok |-> FALSE, resp |-> rs]
    ELSE LET set == [rs EXCEPT !.ZeroConf = TRUE, !.MinAcceptDepth = 0]
         IN IF p.ZeroConfList = Nil THEN [ok |-> TRUE, resp |-> set]
            ELSE [ok |-> InList(Val(p.ZeroConfList), publicKey), resp |-> set]

\* A fault of checkZeroConf: the list is read before the response is written
Policy_checkZeroConf_ListBeforeWrite(p, publicKey, wantsZeroConf, rs) ==
    IF ~wantsZeroConf THEN [ok |-> TRUE, resp |-> rs]
    ELSE IF p.AcceptZeroConfChannels = Nil \/ ~Val(p.AcceptZeroConfChannels)
        THEN [ok |-> FALSE, resp |-> rs]
    ELSE IF p.ZeroConfList # Nil /\ ~InList(Val(p.ZeroConfList), publicKey)
        THEN [ok |-> FALSE, resp |-> rs]
    ELSE [ok |-> TRUE, resp |-> [rs EXCEPT !.ZeroConf = TRUE, !.MinAcceptDepth = 0]]

\* Policy.checkZeroConf: its result and the response as it leaves it
Policy_checkZeroConf(p, publicKey, wantsZeroConf, rs) ==
    IF ~wantsZeroConf THEN [ok |-> TRUE, resp |-> rs]
    ELSE IF p.AcceptZeroConfChannels = Nil \/ ~Val(p.AcceptZeroConfChannels)
        THEN [ok |-> FALSE, resp |-> rs]
    ELSE LET set == [rs EXCEPT !.ZeroConf = TRUE, !.MinAcceptDepth = 0]
         IN IF p.ZeroConfList = Nil THEN [ok |-> TRUE, resp |-> set]
            ELSE [ok |-> InList(Val(p.ZeroConfList), publicKey), resp |-> set]

\* Policy.Evaluate below its conditions gate: the error it returns, the
\* response as it leaves it, and the checks it executed (ran)
Policy_enforce(p, rq, rs, nodeInfo, pr, e) ==
    LET staged == IF p.MinAcceptDepth # Nil
                    THEN [rs EXCEPT !.MinAcceptDepth = Val(p.MinAcceptDepth)]
                    ELSE rs
        zeroConf == Policy_checkZeroConf(p, pr.Node.PubKey, rq.WantsZeroConf, staged)
        numChannels == Wrap("uint32", nodeInfo.NumActiveChannels
                            + nodeInfo.NumInactiveChannels
                            + nodeInfo.NumPendingChannels)
        requestErr == Request_evaluate(p.Request, rq)
    IN
    IF ~Policy_checkRejectAll(p)
        THEN [err |-> Error("No new channels are accepted"), resp |-> staged,
              ran |-> <<"RejectAll">>]
    ELSE IF ~Policy_checkAllowList(p, pr.Node.PubKey)
        THEN [err |-> Error("Node is not allowed"), resp |-> staged,
              ran |-> <<"RejectAll", "AllowList">>]
    ELSE IF ~Policy_checkBlockList(p, pr.Node.PubKey)
        THEN [err |-> Error("Node is blocked"), resp |-> staged,
              ran |-> <<"RejectAll", "AllowList", "BlockList">>]
    ELSE IF ~Policy_checkPrivate(p, IsPrivate(rq))
        THEN [err |-> Error("Private channels are not accepted"), resp |-> staged,
              ran |-> <<"RejectAll", "AllowList", "BlockList", "Private">>]
    ELSE IF ~zeroConf.ok
        THEN [err |-> Error("Zero conf channels are not accepted"),
              resp |-> zeroConf.resp,
              ran |-> <<"RejectAll", "AllowList", "BlockList", "Private", "ZeroConf">>]
    ELSE IF ~Policy_checkMaxChannels(p, numChannels)
        THEN [err |-> Error("Maximum number of channels reached"),
              resp |-> zeroConf.resp,
              ran |-> <<"RejectAll", "AllowList", "BlockList", "Private", "ZeroConf",
                        "MaxChannels">>]
    ELSE IF requestErr # NoErr
        THEN [err |-> requestErr, resp |-> zeroConf.resp,
              ran |-> <<"RejectAll", "AllowList", "BlockList", "Private", "ZeroConf",
                        "MaxChannels", "Request">>]
    ELSE [err |-> Node_evaluate(p.Node, nodeInfo, pr, e), resp |-> zeroConf.resp,
          ran |-> <<"RejectAll", "AllowList", "BlockList", "Private", "ZeroConf",
                    "MaxChannels", "Request", "Node">>]

\* A fault of Evaluate: the conditions gate is missing
Policy_Evaluate_Ungated(p, rq, rs, nodeInfo, pr, e) ==
    Policy_enforce(p, rq, rs, nodeInfo, pr, e)

\* Policy.Evaluate
Policy_Evaluate(p, rq, rs, nodeInfo, pr, e) ==
    IF matchFaults(p.Conditions, rq, nodeInfo, pr, e)
        THEN [err |-> Panic, resp |-> rs, ran |-> <<>>]
    ELSE IF p.Conditions # Nil /\ ~Conditions_Match(p.Conditions, rq, nodeInfo, pr, e)
        THEN [err |-> NoErr, resp |-> rs, ran |-> <<>>]
    ELSE Policy_enforce(p, rq, rs, nodeInfo, pr, e)

----------------------------------------------------------------------------
(* The values the specifications draw their inputs from *)

Keys == {"k1", "k2"}

LocalKey == "n0"

NoRange == [Min |-> Nil, Max |-> Nil]

\* A Request, a Channels, a Node, a Conditions, a Policy with no field set
NoRequest ==
    [ChannelCapacity |-> Nil, ChannelReserve |-> Nil, CSVDelay |-> Nil,
     PushAmount |-> Nil, MaxAcceptedHTLCs |-> Nil, MinHTLC |-> Nil,
     MaxValueInFlight |-> Nil, DustLimit |-> Nil, CommitmentTypes |-> Nil]

NoChannels ==
    [Number |-> Nil, Capacity |-> Nil, ZeroBaseFees |-> Nil, BlockHeight |-> Nil,
     TimeLockDelta |-> Nil, MinHTLC |-> Nil, MaxHTLC |-> Nil,
     LastUpdateDiff |-> Nil, Together |-> Nil,
     IncomingFeeRates |-> Nil, OutgoingFeeRates |-> Nil,
     IncomingBaseFees |-> Nil, OutgoingBaseFees |-> Nil,
     IncomingDisabled |-> Nil, OutgoingDisabled |-> Nil,
     IncomingInboundFeeRates |-> Nil, OutgoingInboundFeeRates |-> Nil,
     IncomingInboundBaseFees |-> Nil, OutgoingInboundBaseFees |-> Nil]

NoNode ==
    [Age |-> Nil, Capacity |-> Nil, Hybrid |-> Nil, FeatureFlags |-> Nil,
     Channels |-> Nil]

NoConditions ==
    [IsPrivate |-> Nil, WantsZeroConf |-> Nil, Is |-> Nil, IsNot |-> Nil,
     Request |-> Nil, Node |-> Nil]

NoPolicy ==
    [Conditions |-> Nil, Request |-> Nil, Node |-> Nil, AllowList |-> Nil,
     BlockList |-> Nil, ZeroConfList |-> Nil, RejectAll |-> Nil,
     RejectPrivateChannels |-> Nil, AcceptZeroConfChannels |-> Nil,
     MinAcceptDepth |-> Nil, MaxChannels |-> Nil]

\* request rules: none, or a ceiling on the channel capacity
RequestRules ==
    {Nil, Some([NoRequest EXCEPT !.ChannelCapacity = Some([NoRange EXCEPT !.Max = Some(2)])])}

\* node rules: none, or the peer must be hybrid
NodeRules == {Nil, Some([NoNode EXCEPT !.Hybrid = Some(TRUE)])}

OptBool == {Nil, Some(TRUE), Some(FALSE)}

\* conditions for the direct calls of Match
ConditionsRich ==
    {Nil} \cup
    {Some([IsPrivate |-> ip, WantsZeroConf |-> wz, Is |-> is, IsNot |-> isNot,
           Request |-> rr, Node |-> nr]) :
        ip \in OptBool, wz \in {Nil, Some(TRUE)},
        is \in {Nil, Some(<<"k1">>), Some(<<"k2">>)}, isNot \in {Nil, Some(<<"k1">>)},
        rr \in RequestRules, nr \in NodeRules}

\* conditions of the evaluated policies: none, or every peer but k1
ConditionsFew ==
    {Nil, Some([NoConditions EXCEPT !.IsNot = Some(<<"k1">>)])}

\* the policies of the direct calls of Evaluate
PoliciesUnit ==
    {[Conditions |-> cd, Request |-> rr, Node |-> nr, AllowList |-> al,
      BlockList |-> bl, ZeroConfList |-> zl, RejectAll |-> ra,
      RejectPrivateChannels |-> rp, AcceptZeroConfChannels |-> az,
      MinAcceptDepth |-> md, MaxChannels |-> mc] :
        cd \in ConditionsFew, rr \in RequestRules, nr \in NodeRules,
        al \in {Nil, Some(<<"k1">>)},
        bl \in {Nil, Some(<<"k2">>), Some(<<"k1", "k2">>)},
        zl \in {Nil, Some(<<"k1">>)}, ra \in {Nil, Some(TRUE)},
        rp \in OptBool, az \in OptBool, md \in {Nil, Some(6)},
        mc \in {Nil, Some(2)}}

\* the policies whose only use is to carry the conditions of a Match call
PoliciesMatch == {[NoPolicy EXCEPT !.Conditions = cd] : cd \in ConditionsRich}

\* the policies of a configuration
PoliciesList ==
    {[NoPolicy EXCEPT !.Conditions = cd, !.BlockList = bl,
                      !.AcceptZeroConfChannels = az, !.MinAcceptDepth = md] :
        cd \in ConditionsFew, bl \in {Nil, Some(<<"k1">>)},
        az \in {Nil, Some(TRUE)}, md \in {Nil, Some(3), Some(6)}}

\* a policy with a rule on the time lock delta of the peer's channels, which
\* the routing policy of every channel is read for
TimeLockPolicy ==
    [NoPolicy EXCEPT !.Node = Some([NoNode EXCEPT !.Channels =
        Some([NoChannels EXCEPT !.TimeLockDelta =
            Some([Operation |-> "", Min |-> Some(1), Max |-> Some(9)])])])]

\* the policies of a configuration file
StreamPolicies == PoliciesList \cup {TimeLockPolicy}

MaxPolicies == 2

RECURSIVE SeqsUpTo(_, _)
SeqsUpTo(S, n) ==
    IF n = 0 THEN {<<>>}
    ELSE LET shorter == SeqsUpTo(S, n - 1)
         IN shorter \cup {Append(q, x) : q \in {t \in shorter : Len(t) = n - 1}, x \in S}

Configs == SeqsUpTo(StreamPolicies, MaxPolicies)

NoRequestMsg ==
    [PendingChanId |-> "", NodePubkey |-> "", ChannelFlags |-> 0,
     WantsZeroConf |-> FALSE, FundingAmt |-> 0, PushAmt |-> 0,
     ChannelReserve |-> 0, CsvDelay |-> 0, MaxAcceptedHtlcs |-> 0, MinHtlc |-> 0,
     MaxValueInFlight |-> 0, DustLimit |-> 0, CommitmentType |-> "UNKNOWN"]

Requests ==
    {[NoRequestMsg EXCEPT !.PendingChanId = "c1", !.NodePubkey = k,
                          !.ChannelFlags = fl, !.WantsZeroConf = wz,
                          !.FundingAmt = fa] :
        k \in Keys, fl \in {0, FFAnnounceChannel}, wz \in BOOLEAN, fa \in {1, 5}}

\* the requests the stream delivers
StreamRequests ==
    {rq \in Requests : rq.ChannelFlags = FFAnnounceChannel /\ rq.FundingAmt = 1}

NoNodeInfo ==
    [IdentityPubkey |-> "", BlockHeight |-> 0, NumActiveChannels |-> 0,
     NumInactiveChannels |-> 0, NumPendingChannels |-> 0]

NodeInfos ==
    {[NoNodeInfo EXCEPT !.IdentityPubkey = LocalKey, !.BlockHeight = 5,
                        !.NumActiveChannels = a, !.NumPendingChannels = 1] :
        a \in {0, 1}}

Clearnet == [Network |-> "tcp", Addr |-> <<"127.0.0.1", ":", "9735">>]

Tor == [Network |-> "tcp", Addr |-> <<"abcdef", ".onion", ":", "9735">>]

RoutingPolicy ==
    [TimeLockDelta |-> 4, MinHtlc |-> 1, FeeBaseMsat |-> 1000,
     FeeRateMilliMsat |-> 2000, Disabled |-> FALSE, MaxHtlcMsat |-> 5000,
     LastUpdate |-> 3, InboundFeeBaseMsat |-> 0, InboundFeeRateMilliMsat |-> 0]

Edge(k) ==
    [ChannelId |-> <<3, 1, 0>>, Capacity |-> 4, Node1Pub |-> k,
     Node2Pub |-> "k3", Node1Policy |-> Some(RoutingPolicy),
     Node2Policy |-> Some(RoutingPolicy)]

NoPeer ==
    [Node |-> [PubKey |-> "", Addresses |-> <<>>, Features |-> <<>>],
     NumChannels |-> 0, TotalCapacity |-> 0, Channels |-> <<>>]

PeerOf(k, addresses) ==
    [Node |-> [PubKey |-> k, Addresses |-> addresses, Features |-> <<>>],
     NumChannels |-> 1, TotalCapacity |-> 4, Channels |-> <<Edge(k)>>]

Peers == {PeerOf(k, a) : k \in Keys, a \in {<<Clearnet>>, <<Clearnet, Tor>>}}

\* a channel of which lnd knows no routing policy: neither end has sent a
\* channel update
EdgeWithoutPolicies(k) == [Edge(k) EXCEPT !.Node1Policy = Nil, !.Node2Policy = Nil]

\* what client.GetNodeInfo can return for the peer of a request
StreamPeers ==
    Peers \cup {[PeerOf(k, <<Clearnet>>) EXCEPT !.Channels = <<EdgeWithoutPolicies(k)>>] :
                    k \in Keys}

\* a new response, and one that an earlier policy has written to
NoResponse ==
    [Accept |-> FALSE, PendingChanId |-> "", Error |-> NoErr, ZeroConf |-> FALSE,
     MinAcceptDepth |-> 0]

Responses == {NoResponse, [NoResponse EXCEPT !.MinAcceptDepth = 3]}

\* what an evaluation reads besides its arguments: the clock and the order in
\* which the keys of a map are visited
Envs == [now : {9}, order : {<<>>}]

NoEnv == [now |-> 0, order |-> <<>>]

\* no direct call is under way
NoCall == [fn |-> "", rets |-> <<>>]

----------------------------------------------------------------------------
(* Direct calls of Policy.Evaluate and Conditions.Match, as the package's  *)
(* tests make them: one policy, a request, a response, the node and peer   *)
(* information.                                                            *)

InitUnit ==
    /\ call = NoCall
    /\ procs = <<>>
    /\ config \in {<<p>> : p \in PoliciesUnit \cup PoliciesMatch}
    /\ pc = "call"
    /\ req \in Requests
    /\ node \in NodeInfos
    /\ peer \in {p \in Peers : p.Node.PubKey = req.NodePubkey}
    /\ resp0 \in Responses
    /\ resp = resp0
    /\ err = NoErr
    /\ ran = <<>>
    /\ env = NoEnv
    /\ i = 1
    /\ evals = <<>>
    /\ matched = FALSE
    /\ sent = Nil

\* err := policy.Evaluate(req, resp, node, peer)
CallEvaluate ==
    /\ UNCHANGED <<call, procs>>
    /\ pc = "call"
    /\ \E e \in Envs :
        LET r == Policy_Evaluate(config[1], req, resp, node, peer, e)
        IN /\ resp' = r.resp
           /\ err' = r.err
           /\ ran' = r.ran
           /\ env' = e
           /\ pc' = IF r.err = Panic THEN "panicked" ELSE "returned"
    /\ UNCHANGED <<config, req, node, peer, resp0, i, evals, matched, sent>>

\* actual := conditions.Match(req, node, peer)
CallMatch ==
    /\ UNCHANGED <<call, procs>>
    /\ pc = "call"
    /\ \E e \in Envs :
        /\ env' = e
        /\ IF matchFaults(config[1].Conditions, req, node, peer, e)
            THEN /\ pc' = "panicked"
                 /\ UNCHANGED matched
            ELSE /\ pc' = "matched"
                 /\ matched' = Conditions_Match(config[1].Conditions, req, node, peer, e)
    /\ UNCHANGED <<config, req, node, peer, resp, resp0, err, ran, i, evals, sent>>

NextUnit == CallEvaluate \/ CallMatch

SpecUnit == InitUnit /\ [][NextUnit]_vars

----------------------------------------------------------------------------
(* main.go: handleChannelRequests and handleRequest.                       *)
(* pc: "recv" (stream.Recv), "fetch" (handleRequest up to the range loop), *)
(* "loop" (the range over config.Policies), "reply" (handleRequest has     *)
(* returned), "stopped" (handleChannelRequests has returned an error),     *)
(* "crashed" (a runtime fault has ended the process).                      *)

RpcFailures == {"rpc error: code = Unavailable"}

Init ==
    /\ call = NoCall
    /\ procs = <<>>
    /\ config \in Configs
    /\ pc = "recv"
    /\ req = NoRequestMsg
    /\ node = NoNodeInfo
    /\ peer = NoPeer
    /\ resp = NoResponse
    /\ resp0 = NoResponse
    /\ err = NoErr
    /\ ran = <<>>
    /\ env = NoEnv
    /\ i = 1
    /\ evals = <<>>
    /\ matched = FALSE
    /\ sent = Nil

\* req, err := stream.Recv() with err == nil; the variables of the loop body
\* are new in each iteration
Recv ==
    /\ UNCHANGED <<call, procs>>
    /\ pc = "recv"
    /\ \E rq \in StreamRequests : req' = rq
    /\ pc' = "fetch"
    /\ sent' = Nil
    /\ UNCHANGED <<config, node, peer, resp, resp0, err, ran, env, i, evals, matched>>

\* stream.Recv() fails: handleChannelRequests returns the wrapped error
RecvFail ==
    /\ UNCHANGED <<call, procs>>
    /\ pc = "recv"
    /\ \E cause \in RpcFailures : err' = <<"receiving channel request", cause>>
    /\ pc' = "stopped"
    /\ UNCHANGED <<config, req, node, peer, resp, resp0, ran, env, i, evals,
                   matched, sent>>

\* handleRequest: the response is created; client.GetInfo fails
GetInfoFail ==
    /\ UNCHANGED <<call, procs>>
    /\ pc = "fetch"
    /\ resp' = [NoResponse EXCEPT !.PendingChanId = req.PendingChanId]
    /\ resp0' = resp'
    /\ \E cause \in RpcFailures : err' = <<"getting node information", cause>>
    /\ pc' = "reply"
    /\ UNCHANGED <<config, req, node, peer, ran, env, i, evals, matched, sent>>

\* handleRequest: the response is created, client.GetInfo succeeds;
\* client.GetNodeInfo fails
GetNodeInfoFail ==
    /\ UNCHANGED <<call, procs>>
    /\ pc = "fetch"
    /\ resp' = [NoResponse EXCEPT !.PendingChanId = req.PendingChanId]
    /\ resp0' = resp'
    /\ \E n \in NodeInfos : node' = n
    /\ err' = Error("Internal server error")
    /\ pc' = "reply"
    /\ UNCHANGED <<config, req, peer, ran, env, i, evals, matched, sent>>

\* handleRequest: the response is created and both calls succeed; the peer
\* information is that of the node the request names
Fetch ==
    /\ UNCHANGED <<call, procs>>
    /\ pc = "fetch"
    /\ resp' = [NoResponse EXCEPT !.PendingChanId = req.PendingChanId]
    /\ resp0' = resp'
    /\ \E n \in NodeInfos : node' = n
    /\ \E p \in StreamPeers : p.Node.PubKey = req.NodePubkey /\ peer' = p
    /\ i' = 1
    /\ evals' = <<>>
    /\ pc' = "loop"
    /\ UNCHANGED <<config, req, err, ran, env, matched, sent>>

\* A fault of the range loop: a policy's error is kept and the loop goes on
EvaluatePolicy_KeepsGoing ==
    /\ UNCHANGED <<call, procs>>
    /\ pc = "loop"
    /\ i <= Len(config)
    /\ \E e \in Envs :
        LET policy == config[i]
            r == Policy_Evaluate(policy, req, resp, node, peer, e)
        IN /\ env' = e
           /\ ran' = r.ran
           /\ evals' = Append(evals, r.err)
           /\ resp' = r.resp
           /\ err' = IF r.err # NoErr THEN r.err ELSE err
           /\ i' = i + 1
           /\ UNCHANGED pc
    /\ UNCHANGED <<config, req, node, peer, resp0, matched, sent>>

\* One iteration of the range loop of handleRequest: the policy is evaluated
\* against the request, the response of this request, the node and the peer;
\* an error returns it, otherwise the policy's min_accept_depth is written to
\* the response and the loop goes on
EvaluatePolicy ==
    /\ UNCHANGED <<call, procs>>
    /\ pc = "loop"
    /\ i <= Len(config)
    /\ \E e \in Envs :
        LET policy == config[i]
            r == Policy_Evaluate(policy, req, resp, node, peer, e)
        IN /\ env' = e
           /\ ran' = r.ran
           /\ evals' = Append(evals, r.err)
           /\ IF r.err = Panic
                THEN /\ pc' = "crashed"
                     /\ resp' = r.resp
                     /\ UNCHANGED <<err, i>>
              ELSE IF r.err # NoErr
                THEN /\ pc' = "reply"
                     /\ resp' = r.resp
                     /\ err' = r.err
                     /\ UNCHANGED i
              ELSE /\ resp' = IF policy.MinAcceptDepth # Nil
                                THEN [r.resp EXCEPT !.MinAcceptDepth =
                                                        Val(policy.MinAcceptDepth)]
                                ELSE r.resp
                   /\ i' = i + 1
                   /\ UNCHANGED <<pc, err>>
    /\ UNCHANGED <<config, req, node, peer, resp0, matched, sent>>

\* A fault of the end of handleRequest: zero-conf is granted without a policy
Return_AnyConfig ==
    /\ UNCHANGED <<call, procs>>
    /\ pc = "loop"
    /\ i > Len(config)
    /\ resp' = IF req.WantsZeroConf
                THEN [resp EXCEPT !.ZeroConf = TRUE, !.MinAcceptDepth = 0]
                ELSE resp
    /\ err' = NoErr
    /\ pc' = "reply"
    /\ UNCHANGED <<config, req, node, peer, resp0, ran, env, i, evals, matched, sent>>

\* The end of handleRequest once the loop has run out of policies
Return ==
    /\ UNCHANGED <<call, procs>>
    /\ pc = "loop"
    /\ i > Len(config)
    /\ resp' = IF req.WantsZeroConf /\ Len(config) # 0
                THEN [resp EXCEPT !.ZeroConf = TRUE, !.MinAcceptDepth = 0]
                ELSE resp
    /\ err' = NoErr
    /\ pc' = "reply"
    /\ UNCHANGED <<config, req, node, peer, resp0, ran, env, i, evals, matched, sent>>

\* handleChannelRequests: the response as completed after handleRequest
Completed ==
    IF err # NoErr THEN [resp EXCEPT !.Error = err] ELSE [resp EXCEPT !.Accept = TRUE]

\* stream.Send(resp) succeeds; the next iteration starts
Send ==
    /\ UNCHANGED <<call, procs>>
    /\ pc = "reply"
    /\ sent' = Some([request |-> req, response |-> Completed])
    /\ pc' = "recv"
    /\ req' = NoRequestMsg
    /\ node' = NoNodeInfo
    /\ peer' = NoPeer
    /\ resp' = NoResponse
    /\ resp0' = NoResponse
    /\ err' = NoErr
    /\ ran' = <<>>
    /\ env' = NoEnv
    /\ i' = 1
    /\ evals' = <<>>
    /\ UNCHANGED <<config, matched>>

\* stream.Send(resp) fails: handleChannelRequests returns the wrapped error
SendFail ==
    /\ UNCHANGED <<call, procs>>
    /\ pc = "reply"
    /\ resp' = Completed
    /\ \E cause \in RpcFailures : err' = <<"sending channel response", cause>>
    /\ pc' = "stopped"
    /\ UNCHANGED <<config, req, node, peer, resp0, ran, env, i, evals, matched, sent>>

Next ==
    \/ Recv
    \/ RecvFail
    \/ GetInfoFail
    \/ GetNodeInfoFail
    \/ Fetch
    \/ EvaluatePolicy
    \/ Return
    \/ Send
    \/ SendFail

Spec == Init /\ [][Next]_vars

----------------------------------------------------------------------------
(* Direct calls of the functions of the package, as its tests make them:   *)
(* call holds the name of the function, its arguments and, in rets, what   *)
(* it returned.                                                            *)

\* every variable but call
others ==
    <<config, pc, req, node, peer, resp, resp0, err, ran, env, i, evals, matched,
      sent, procs>>

\* the fields of a Request rule in the order of the struct's use, built from
\* the ranges f[1..8] and the commitment types ct
RequestOf(f, ct) ==
    [ChannelCapacity |-> f[1], PushAmount |-> f[2], ChannelReserve |-> f[3],
     CSVDelay |-> f[4], MaxAcceptedHTLCs |-> f[5], MinHTLC |-> f[6],
     MaxValueInFlight |-> f[7], DustLimit |-> f[8], CommitmentTypes |-> ct]

\* request messages whose numeric fields all hold v
RequestMsgOf(v) ==
    [NoRequestMsg EXCEPT !.PendingChanId = "c1", !.NodePubkey = "k1",
                         !.ChannelFlags = FFAnnounceChannel,
                         !.FundingAmt = v, !.PushAmt = v, !.ChannelReserve = v,
                         !.CsvDelay = v, !.MaxAcceptedHtlcs = v, !.MinHtlc = v,
                         !.MaxValueInFlight = v, !.DustLimit = v,
                         !.CommitmentType = "LEGACY"]

RequestMsgs == {RequestMsgOf(3), RequestMsgOf(6)}

\* ranges that exclude 3, and ranges (or none) that include it
RangesWithout3 ==
    {Some([NoRange EXCEPT !.Min = Some(5)]), Some([NoRange EXCEPT !.Max = Some(1)]),
     Some([Min |-> Some(5), Max |-> Some(7)])}

RangesWith3 == {Nil, Some([Min |-> Some(1), Max |-> Some(5)])}

\* Request rules: the fields from the k-th on exclude 3 and the earlier ones
\* include it; or the k-th field alone is configured
RequestRulesRich ==
    {Nil} \cup
    {Some(RequestOf([j \in 1..8 |-> IF j >= k THEN bad ELSE good],
                    IF k <= 9 THEN Some(<<"ANCHORS">>) ELSE goodTypes)) :
        k \in 1..10, bad \in RangesWithout3, good \in RangesWith3,
        goodTypes \in {Nil, Some(<<"ANCHORS", "LEGACY">>)}} \cup
    {Some(RequestOf([j \in 1..8 |-> IF j = k THEN r ELSE Nil], Nil)) :
        k \in 1..8, r \in RangesWithout3 \cup RangesWith3}

CallsOfRequestEvaluate ==
    {[fn |-> "Request.evaluate", r |-> r, req |-> m, rets |-> <<>>] :
        r \in RequestRulesRich, m \in RequestMsgs}

\* err := r.evaluate(req)
Call_Request_evaluate ==
    /\ call.fn = "Request.evaluate"
    /\ call.rets = <<>>
    /\ call' = [call EXCEPT !.rets = <<Request_evaluate(call.r, call.req)>>]
    /\ UNCHANGED others

\* ranges with each bound absent or one of a few values (among them ranges
\* whose min is above their max), and the values tested against them
RangeBounds == {Nil} \cup {Some(b) : b \in 0..3}

Ranges == [Min : RangeBounds, Max : RangeBounds]

RangeValues == (0 - 1)..4

CallsOfContains ==
    {[fn |-> "Range.Contains", r |-> r, v |-> v, rets |-> <<>>] :
        r \in Ranges, v \in RangeValues}

CallsOfCheck ==
    {[fn |-> "check", r |-> r, v |-> v, rets |-> <<>>] :
        r \in {Nil} \cup {Some(x) : x \in Ranges}, v \in RangeValues}

\* r.Contains(v)
Call_Range_Contains ==
    /\ call.fn = "Range.Contains"
    /\ call.rets = <<>>
    /\ call' = [call EXCEPT !.rets = <<Range_Contains(call.r, call.v)>>]
    /\ UNCHANGED others

\* check(r, v)
Call_check ==
    /\ call.fn = "check"
    /\ call.rets = <<>>
    /\ call' = [call EXCEPT !.rets = <<check(call.r, call.v)>>]
    /\ UNCHANGED others

\* A bound above every value the peers of the direct calls make a check read
HighBound == 9

\* A rule of each kind in a given setting: "off" (not configured), "pass"
\* (configured, and the peers of the direct calls satisfy it) or "fail"
RangeIn(setting) ==
    IF setting = "off" THEN Nil
    ELSE IF setting = "pass" THEN Some([NoRange EXCEPT !.Max = Some(HighBound)])
    ELSE Some([NoRange EXCEPT !.Min = Some(HighBound)])

StatRangeIn(setting) ==
    IF setting = "off" THEN Nil
    ELSE IF setting = "pass"
        THEN Some([Operation |-> "", Min |-> Nil, Max |-> Some(HighBound)])
    ELSE Some([Operation |-> "", Min |-> Some(HighBound), Max |-> Nil])

\* the Node rule whose 23 checks, in the order of the struct's use, are in
\* the settings m[1..23]
NodeRuleOf(m) ==
    [Age |-> RangeIn(m[1]),
     Capacity |-> RangeIn(m[2]),
     Hybrid |-> IF m[3] = "off" THEN Nil ELSE Some(m[3] = "pass"),
     FeatureFlags |-> IF m[4] = "off" THEN Nil
                      ELSE IF m[4] = "pass" THEN Some(<<1>>) ELSE Some(<<1, 7>>),
     Channels |->
        IF \A j \in 5..23 : m[j] = "off" THEN Nil
        ELSE Some(
            [Number |-> RangeIn(m[5]),
             Capacity |-> StatRangeIn(m[6]),
             ZeroBaseFees |-> IF m[7] = "off" THEN Nil ELSE Some(m[7] = "fail"),
             BlockHeight |-> StatRangeIn(m[8]),
             TimeLockDelta |-> StatRangeIn(m[9]),
             MinHTLC |-> StatRangeIn(m[10]),
             MaxHTLC |-> StatRangeIn(m[11]),
             LastUpdateDiff |-> StatRangeIn(m[12]),
             Together |-> RangeIn(m[13]),
             IncomingFeeRates |-> StatRangeIn(m[14]),
             OutgoingFeeRates |-> StatRangeIn(m[15]),
             IncomingBaseFees |-> StatRangeIn(m[16]),
             OutgoingBaseFees |-> StatRangeIn(m[17]),
             IncomingInboundFeeRates |-> StatRangeIn(m[18]),
             OutgoingInboundFeeRates |-> StatRangeIn(m[19]),
             IncomingInboundBaseFees |-> StatRangeIn(m[20]),
             OutgoingInboundBaseFees |-> StatRangeIn(m[21]),
             IncomingDisabled |-> StatRangeIn(m[22]),
             OutgoingDisabled |-> StatRangeIn(m[23])])]

\* Node rules: every check from the k-th on fails and the earlier ones are
\* all off or all pass; or one check alone is configured
NodeRulesRich ==
    {Nil, Some(NoNode), Some([NoNode EXCEPT !.Channels = Some(NoChannels)])} \cup
    {Some(NodeRuleOf([j \in 1..23 |-> IF j >= k THEN "fail" ELSE early])) :
        k \in 1..24, early \in {"off", "pass"}} \cup
    {Some(NodeRuleOf([j \in 1..23 |-> IF j = k THEN setting ELSE "off"])) :
        k \in 1..23, setting \in {"pass", "fail"}}

\* the peers of the direct calls: a clearnet-only and a hybrid node with one
\* channel, which the node rules in setting "pass" accept but for zero base
\* fees, and a feature vector with bit 1 known
CallPeers ==
    {[PeerOf("k1", a) EXCEPT !.Node.Features = <<[Name |-> "f1", IsKnown |-> TRUE]>>] :
        a \in {<<Tor>>, <<Clearnet, Tor>>}}

CallsOfNodeEvaluate ==
    {[fn |-> "Node.evaluate", n |-> n, node |-> nd, peer |-> p, env |-> NoEnv,
      rets |-> <<>>] :
        n \in NodeRulesRich, nd \in NodeInfos, p \in CallPeers}

\* err := n.evaluate(node, peer)
Call_Node_evaluate ==
    /\ call.fn = "Node.evaluate"
    /\ call.rets = <<>>
    /\ \E e \in Envs :
        call' = [call EXCEPT !.env = e,
                    !.rets = <<Node_evaluate(call.n, call.node, call.peer, e)>>]
    /\ UNCHANGED others

\* node addresses: clearnet, onion with and without a port, and a clearnet
\* host that has .onion inside its name
Addresses ==
    {Clearnet, Tor, [Network |-> "tcp", Addr |-> <<"abcdef", ".onion">>],
     [Network |-> "tcp", Addr |-> <<"abcdef", ".onion", ".example", ":", "9735">>]}

MaxAddresses == 3

CallsOfCheckHybrid ==
    {[fn |-> "Node.checkHybrid", n |-> [NoNode EXCEPT !.Hybrid = h],
      addresses |-> a, rets |-> <<>>] :
        h \in OptBool, a \in SeqsUpTo(Addresses, MaxAddresses)}

\* n.checkHybrid(addresses)
Call_Node_checkHybrid ==
    /\ call.fn = "Node.checkHybrid"
    /\ call.rets = <<>>
    /\ call' = [call EXCEPT !.rets = <<Node_checkHybrid(call.n, call.addresses)>>]
    /\ UNCHANGED others

\* base fees in millisatoshis: none, less than a satoshi, a satoshi
BaseFees == {0, 1, 1000}

\* a channel edge between the peer k1 and a node k3, the peer being its first
\* or its second endpoint, with the given base fees on either side
EdgeWithFees(peerFirst, own, other) ==
    [ChannelId |-> <<3, 1, 0>>, Capacity |-> 4,
     Node1Pub |-> IF peerFirst THEN "k1" ELSE "k3",
     Node2Pub |-> IF peerFirst THEN "k3" ELSE "k1",
     Node1Policy |-> Some([RoutingPolicy EXCEPT
                            !.FeeBaseMsat = IF peerFirst THEN own ELSE other]),
     Node2Policy |-> Some([RoutingPolicy EXCEPT
                            !.FeeBaseMsat = IF peerFirst THEN other ELSE own])]

EdgesWithFees ==
    {EdgeWithFees(f, own, other) : f \in BOOLEAN, own \in BaseFees, other \in BaseFees}

MaxChannelEdges == 2

\* peers with up to MaxChannelEdges such channels
PeersWithFees ==
    {[PeerOf("k1", <<Clearnet>>) EXCEPT !.Channels = cs, !.NumChannels = Len(cs)] :
        cs \in SeqsUpTo(EdgesWithFees, MaxChannelEdges)}

CallsOfCheckZeroBaseFees ==
    {[fn |-> "Channels.checkZeroBaseFees", c |-> [NoChannels EXCEPT !.ZeroBaseFees = z],
      peer |-> p, fault |-> FALSE, rets |-> <<>>] :
        z \in OptBool, p \in PeersWithFees}

\* c.checkZeroBaseFees(peer): it returns, or it faults on an absent policy
Call_Channels_checkZeroBaseFees ==
    /\ call.fn = "Channels.checkZeroBaseFees"
    /\ call.rets = <<>>
    /\ ~call.fault
    /\ call' = IF zeroBaseFeesFaults(call.c, call.peer)
                THEN [call EXCEPT !.fault = TRUE]
                ELSE [call EXCEPT !.rets =
                        <<Channels_checkZeroBaseFees(call.c, call.peer)>>]
    /\ UNCHANGED others

\* the values of a uint32 channel counter: the small ones and those next to
\* the largest one
Counters == {0, 1, 2, Uint32Mod \div 2, Uint32Mod - 2, Uint32Mod - 1}

NodeInfosCounting ==
    {[NoNodeInfo EXCEPT !.IdentityPubkey = LocalKey, !.BlockHeight = 5,
                        !.NumActiveChannels = a, !.NumInactiveChannels = b,
                        !.NumPendingChannels = c] :
        a \in Counters, b \in Counters, c \in Counters}

\* direct calls of Evaluate with a policy that only limits the channels
CallsOfEvaluateMaxChannels ==
    {[fn |-> "Policy.Evaluate", p |-> [NoPolicy EXCEPT !.MaxChannels = Some(m)],
      req |-> RequestMsgOf(3), resp |-> NoResponse, node |-> n,
      peer |-> PeerOf("k1", <<Clearnet>>), rets |-> <<>>] :
        m \in {1, 3, Uint32Mod - 1}, n \in NodeInfosCounting}

\* the readings of the clock and the orders of visit of a map's keys
CallEnvs == [now : {9, 10}, order : {<<>>, <<9>>}]

\* how many times the same arguments are evaluated
MaxEvaluations == 2

\* err := p.Evaluate(req, resp, node, peer), the response being a copy of
\* call.resp each time; rets gets the error and the response as left
Call_Policy_Evaluate ==
    /\ call.fn = "Policy.Evaluate"
    /\ Len(call.rets) < MaxEvaluations
    /\ \E e \in CallEnvs :
        LET r == Policy_Evaluate(call.p, call.req, call.resp, call.node, call.peer, e)
        IN call' = [call EXCEPT !.rets = Append(@, [err |-> r.err, resp |-> r.resp])]
    /\ UNCHANGED others

\* a channel edge of the peer k1 with the given capacity
EdgeOfCapacity(capacity) == [Edge("k1") EXCEPT !.Capacity = capacity]

\* peers whose channel capacities have one most frequent value, or two
PeersWithCapacities ==
    {[PeerOf("k1", <<Clearnet>>) EXCEPT
        !.Channels = [k \in 1..Len(cs) |-> EdgeOfCapacity(cs[k])],
        !.NumChannels = Len(cs)] :
        cs \in {<<4>>, <<4, 9>>, <<9, 4>>, <<4, 4, 9>>, <<4, 9, 9>>, <<4, 9, 9, 4>>}}

\* a policy with one statistic rule on the channels of the peer
PolicyOfChannels(c) ==
    [NoPolicy EXCEPT !.Node = Some([NoNode EXCEPT !.Channels = Some(c)])]

\* rules on a statistic of the capacities, and on the time since the last
\* update of the channels
StatPolicies ==
    {PolicyOfChannels([NoChannels EXCEPT !.Capacity =
            Some([Operation |-> op, Min |-> Nil, Max |-> Some(5)])]) :
        op \in {"", "median", "mode", "range"}} \cup
    {PolicyOfChannels([NoChannels EXCEPT !.LastUpdateDiff =
            Some([Operation |-> op, Min |-> Nil, Max |-> Some(6)])]) :
        op \in {"", "mode"}}

CallsOfEvaluateStat ==
    {[fn |-> "Policy.Evaluate", p |-> p, req |-> RequestMsgOf(3), resp |-> rs,
      node |-> n, peer |-> pr, rets |-> <<>>] :
        p \in StatPolicies, rs \in Responses, n \in NodeInfos,
        pr \in PeersWithCapacities}

\* block heights encoded in channel ids (below MaxInt32, as 24 bits are below
\* 31) and best block heights of the local node
ChannelHeights == {0, 1, 2, 5}

BestHeights == {0, 1, 3, 5, Uint32Mod - 1}

EdgeAtHeight(h) == [Edge("k1") EXCEPT !.ChannelId = <<h, 1, 0>>]

CallsOfCheckAge ==
    {[fn |-> "Node.checkAge", n |-> [NoNode EXCEPT !.Age = a],
      bestBlockHeight |-> b,
      channels |-> [k \in 1..Len(hs) |-> EdgeAtHeight(hs[k])], rets |-> <<>>] :
        a \in {Nil} \cup {Some(r) : r \in Ranges}, b \in BestHeights,
        hs \in SeqsUpTo(ChannelHeights, MaxChannelEdges)}

\* n.checkAge(bestBlockHeight, channels)
Call_Node_checkAge ==
    /\ call.fn = "Node.checkAge"
    /\ call.rets = <<>>
    /\ call' = [call EXCEPT !.rets =
                    <<Node_checkAge(call.n, call.bestBlockHeight, call.channels)>>]
    /\ UNCHANGED others

\* routing policies that tell the two ends of a channel apart
PolicyOfNode1 == [RoutingPolicy EXCEPT !.TimeLockDelta = 1]

PolicyOfNode2 == [RoutingPolicy EXCEPT !.TimeLockDelta = 5]

\* channel edges between any two of three nodes, each end with its routing
\* policy or with none
EdgesBetween ==
    {[Edge("k1") EXCEPT !.Node1Pub = a, !.Node2Pub = b,
                        !.Node1Policy = p, !.Node2Policy = q] :
        a \in {"k1", "k2", "k3"}, b \in {"k1", "k2", "k3"},
        p \in {Nil, Some(PolicyOfNode1)}, q \in {Nil, Some(PolicyOfNode2)}}

CallsOfGetNodePolicy ==
    {[fn |-> "getNodePolicy", peerPublicKey |-> k, channel |-> c, outgoing |-> o,
      rets |-> <<>>] :
        k \in Keys, c \in EdgesBetween, o \in BOOLEAN}

\* getNodePolicy(peerPublicKey, channel, outgoing)
Call_getNodePolicy ==
    /\ call.fn = "getNodePolicy"
    /\ call.rets = <<>>
    /\ call' = [call EXCEPT !.rets =
                    <<getNodePolicy(call.peerPublicKey, call.channel, call.outgoing)>>]
    /\ UNCHANGED others

\* the values of a list of the integer type T: for uint32 up to the highest
\* value of the type, for int64 on both sides of zero and far from its ends
ValuesOf(T) ==
    IF T = "uint32" THEN {0, 1, 4, Uint32Mod \div 2, Uint32Mod - 1}
    ELSE {0 - 3, 0, 1, 4, 6, 10, 11}

MaxValues == 3

\* the lists of range_test.go (TestMedian), as they are and reversed
TestLists ==
    {<<1, 4, 5, 7, 8, 12>>, <<12, 8, 7, 5, 4, 1>>, <<7, 1, 12, 4, 8, 5>>,
     <<1, 4, 5, 7, 8, 12, 13>>, <<13, 12, 8, 7, 5, 4, 1>>, <<7, 13, 1, 12, 4, 8, 5>>}

ValueLists(T) ==
    SeqsUpTo(ValuesOf(T), MaxValues) \cup (IF T = "int64" THEN TestLists ELSE {})

CallsOfReduce ==
    {[fn |-> f, T |-> T, values |-> vs, rets |-> <<>>] :
        f \in {"mean", "median", "rangeOp"}, T \in {"uint32"}, vs \in ValueLists("uint32")}
    \cup
    {[fn |-> f, T |-> T, values |-> vs, rets |-> <<>>] :
        f \in {"mean", "median", "rangeOp"}, T \in {"int64"}, vs \in ValueLists("int64")}

\* mean(values)
Call_mean ==
    /\ call.fn = "mean"
    /\ call.rets = <<>>
    /\ call' = [call EXCEPT !.rets = <<mean(call.T, call.values)>>]
    /\ UNCHANGED others

\* median(values)
Call_median ==
    /\ call.fn = "median"
    /\ call.rets = <<>>
    /\ call' = [call EXCEPT !.rets = <<median(call.T, call.values)>>]
    /\ UNCHANGED others

\* rangeOp(values)
Call_rangeOp ==
    /\ call.fn = "rangeOp"
    /\ call.rets = <<>>
    /\ call' = [call EXCEPT !.rets = <<rangeOp(call.T, call.values)>>]
    /\ UNCHANGED others

\* the orders in which a range statement can visit the keys of the
\* occurrences map of the values
Orders(values) ==
    LET keys == KeysOf(values)
        n == Cardinality(keys)
    IN {s \in [1..n -> keys] : \A j, k \in 1..n : s[j] = s[k] => j = k}

Operations == {"", "mean", "median", "mode", "range"}

\* bounds of a statistic rule: none, zero, and values between those of the
\* lists; for int64 also one below zero
StatBoundsOf(T) ==
    {Nil, Some(0), Some(1), Some(6), Some(7)}
        \cup (IF T = "int64" THEN {Some(0 - 1)} ELSE {})

StatRangesOf(T) ==
    [Operation : Operations, Min : StatBoundsOf(T), Max : StatBoundsOf(T)]

\* the lists checkStat builds for peers with no, one, two and three
\* channels; those of uint32 have a sum within the type but for the last
StatListsOf(T) ==
    IF T = "uint32"
        THEN {<<>>, <<4>>, <<4, 6>>, <<6, 1, 6>>, <<Uint32Mod - 1, 1>>}
        ELSE {<<>>, <<4>>, <<4, 6>>, <<6, 4, 6>>, <<4, 6, 11>>, <<4, 6, 10>>}

CallsOfStatContains ==
    {[fn |-> "StatRange.Contains", T |-> "uint32", a |-> a, values |-> vs,
      rets |-> <<>>] : a \in StatRangesOf("uint32"), vs \in StatListsOf("uint32")}
    \cup
    {[fn |-> "StatRange.Contains", T |-> "int64", a |-> a, values |-> vs,
      rets |-> <<>>] : a \in StatRangesOf("int64"), vs \in StatListsOf("int64")}

\* a.Contains(values)
Call_StatRange_Contains ==
    /\ call.fn = "StatRange.Contains"
    /\ call.rets = <<>>
    /\ \E order \in Orders(call.values) :
        call' = [call EXCEPT !.rets =
                    <<StatRange_Contains(call.T, call.a, call.values, order)>>]
    /\ UNCHANGED others

\* the list of range_test.go (TestMode)
TestModeList == <<1, 1, 2, 5, 7, 4, 6, 1>>

CallsOfMode ==
    {[fn |-> "mode", T |-> "uint32", values |-> vs, rets |-> <<>>] :
        vs \in ValueLists("uint32")}
    \cup
    {[fn |-> "mode", T |-> "int64", values |-> vs, rets |-> <<>>] :
        vs \in SeqsUpTo(ValuesOf("int64"), MaxValues) \cup {TestModeList}}

\* mode(values), called again and again for the same values: each call may
\* visit the keys of its occurrences map in another order
Call_mode ==
    /\ call.fn = "mode"
    /\ Len(call.rets) < MaxEvaluations
    /\ \E order \in Orders(call.values) :
        call' = [call EXCEPT !.rets = Append(@, mode(call.T, call.values, order))]
    /\ UNCHANGED others

\* a channel of the peer k1 with k3, k1 being its first or its second end,
\* with or without the routing policy of each end; the base fee is zero or a
\* satoshi
EdgeOfPolicies(peerFirst, own, other) ==
    [Edge("k1") EXCEPT !.Node1Pub = IF peerFirst THEN "k1" ELSE "k3",
                       !.Node2Pub = IF peerFirst THEN "k3" ELSE "k1",
                       !.Node1Policy = IF peerFirst THEN own ELSE other,
                       !.Node2Policy = IF peerFirst THEN other ELSE own]

EdgesOfPolicies ==
    {EdgeOfPolicies(f, own, other) :
        f \in BOOLEAN,
        own \in {Nil, Some(RoutingPolicy), Some([RoutingPolicy EXCEPT !.FeeBaseMsat = 0])},
        other \in {Nil, Some(RoutingPolicy)}}

PeersOfPolicies ==
    {[PeerOf("k1", <<Clearnet>>) EXCEPT !.Channels = cs, !.NumChannels = Len(cs)] :
        cs \in SeqsUpTo(EdgesOfPolicies, MaxChannelEdges)}

\* Channels rules: none, each of the 19 checks alone, and each of them after
\* a rule on the number of channels that the peers do not satisfy
ChannelsRules ==
    {NoChannels} \cup
    {Val(NodeRuleOf([j \in 1..23 |->
            IF j = k THEN "pass" ELSE IF j = 5 THEN first ELSE "off"]).Channels) :
        k \in 5..23, first \in {"off", "fail"}}

CallsOfChannelsEvaluate ==
    {[fn |-> "Channels.evaluate", c |-> c, nodePublicKey |-> "k3", peer |-> p,
      fault |-> FALSE, rets |-> <<>>] :
        c \in ChannelsRules, p \in PeersOfPolicies}

\* err := c.evaluate(nodePublicKey, peer): it returns, or it faults on an
\* absent routing policy
Call_Channels_evaluate ==
    /\ call.fn = "Channels.evaluate"
    /\ call.rets = <<>>
    /\ ~call.fault
    /\ \E e \in Envs :
        LET r == Channels_evaluate(Some(call.c), call.nodePublicKey, call.peer, e)
        IN call' = IF r = Panic
                    THEN [call EXCEPT !.fault = TRUE]
                    ELSE [call EXCEPT !.rets = <<r>>]
    /\ UNCHANGED others

\* the calls the specification starts from: any function, any arguments
InitialCall ==
    \/ call \in CallsOfRequestEvaluate
    \/ call \in CallsOfContains
    \/ call \in CallsOfCheck
    \/ call \in CallsOfNodeEvaluate
    \/ call \in CallsOfCheckHybrid
    \/ call \in CallsOfCheckZeroBaseFees
    \/ call \in CallsOfEvaluateMaxChannels
    \/ call \in CallsOfEvaluateStat
    \/ call \in CallsOfCheckAge
    \/ call \in CallsOfGetNodePolicy
    \/ call \in CallsOfReduce
    \/ call \in CallsOfStatContains
    \/ call \in CallsOfMode
    \/ call \in CallsOfChannelsEvaluate

InitCalls ==
    /\ InitialCall
    /\ procs = <<>>
    /\ config = <<>>
    /\ pc = "call"
    /\ req = NoRequestMsg
    /\ node = NoNodeInfo
    /\ peer = NoPeer
    /\ resp = NoResponse
    /\ resp0 = NoResponse
    /\ err = NoErr
    /\ ran = <<>>
    /\ env = NoEnv
    /\ i = 1
    /\ evals = <<>>
    /\ matched = FALSE
    /\ sent = Nil

NextCalls ==
    \/ Call_Request_evaluate
    \/ Call_Range_Contains
    \/ Call_check
    \/ Call_Node_evaluate
    \/ Call_Node_checkHybrid
    \/ Call_Channels_checkZeroBaseFees
    \/ Call_Policy_Evaluate
    \/ Call_Node_checkAge
    \/ Call_getNodePolicy
    \/ Call_mean
    \/ Call_median
    \/ Call_rangeOp
    \/ Call_StatRange_Contains
    \/ Call_mode
    \/ Call_Channels_evaluate

SpecCalls == InitCalls /\ [][NextCalls]_vars

----------------------------------------------------------------------------
(* Concurrent evaluations: several goroutines run the loop of handleRequest *)
(* at the same time, each for a request of its own, with a response, a     *)
(* loop index and an error of its own (procs[g]); the policy list (config) *)
(* and the local node information (node) are the same objects for all.     *)
(* A step is one iteration of the loop, or the end of handleRequest.       *)

NumGoroutines == 2

Goroutines == 1..NumGoroutines

\* the policies of the shared list: a depth, an accepted zero-conf with a
\* depth, a block list with an accepted zero-conf, and a depth for every
\* peer but k1
ConcPolicies ==
    {[NoPolicy EXCEPT !.MinAcceptDepth = Some(3)],
     [NoPolicy EXCEPT !.AcceptZeroConfChannels = Some(TRUE),
                      !.MinAcceptDepth = Some(6)],
     [NoPolicy EXCEPT !.BlockList = Some(<<"k1">>),
                      !.AcceptZeroConfChannels = Some(TRUE)],
     [NoPolicy EXCEPT !.Conditions = Some([NoConditions EXCEPT !.IsNot = Some(<<"k1">>)]),
                      !.MinAcceptDepth = Some(6)]}

\* the locals of a goroutine that has fetched the data of its request
GoroutineOf(rq) ==
    [pc |-> "loop", req |-> rq, peer |-> PeerOf(rq.NodePubkey, <<Clearnet>>),
     resp |-> [NoResponse EXCEPT !.PendingChanId = rq.PendingChanId],
     err |-> NoErr, i |-> 1]

InitConc ==
    /\ config \in SeqsUpTo(ConcPolicies, MaxPolicies)
    /\ node \in {n \in NodeInfos : n.NumActiveChannels = 0}
    /\ procs \in [Goroutines -> {GoroutineOf(rq) : rq \in StreamRequests}]
    /\ call = NoCall
    /\ pc = "concurrent"
    /\ req = NoRequestMsg
    /\ peer = NoPeer
    /\ resp = NoResponse
    /\ resp0 = NoResponse
    /\ err = NoErr
    /\ ran = <<>>
    /\ env = NoEnv
    /\ i = 1
    /\ evals = <<>>
    /\ matched = FALSE
    /\ sent = Nil

\* the variables no goroutine writes
sharedVars ==
    <<config, pc, req, node, peer, resp, resp0, err, ran, env, i, evals, matched,
      sent, call>>

\* A fault of the loop: the responses of all goroutines are one object, that
\* of the first goroutine
ConcEvaluate_SharedResponse(g) ==
    /\ procs[g].pc = "loop"
    /\ procs[g].i <= Len(config)
    /\ \E e \in Envs :
        LET policy == config[procs[g].i]
            r == Policy_Evaluate(policy, procs[g].req, procs[1].resp, node,
                                 procs[g].peer, e)
            written == IF r.err = NoErr /\ policy.MinAcceptDepth # Nil
                        THEN [r.resp EXCEPT !.MinAcceptDepth = Val(policy.MinAcceptDepth)]
                        ELSE r.resp
            moved == IF r.err # NoErr
                        THEN [procs[g] EXCEPT !.pc = "done", !.err = r.err]
                        ELSE [procs[g] EXCEPT !.i = @ + 1]
        IN procs' = [h \in Goroutines |->
                        [(IF h = g THEN moved ELSE procs[h]) EXCEPT !.resp = written]]
    /\ UNCHANGED sharedVars

\* One iteration of the range loop of handleRequest in goroutine g
ConcEvaluate(g) ==
    /\ procs[g].pc = "loop"
    /\ procs[g].i <= Len(config)
    /\ \E e \in Envs :
        LET policy == config[procs[g].i]
            r == Policy_Evaluate(policy, procs[g].req, procs[g].resp, node,
                                 procs[g].peer, e)
        IN procs' = [procs EXCEPT ![g] =
                IF r.err # NoErr
                    THEN [@ EXCEPT !.pc = "done", !.err = r.err, !.resp = r.resp]
                ELSE [@ EXCEPT !.i = @ + 1,
                               !.resp = IF policy.MinAcceptDepth # Nil
                                    THEN [r.resp EXCEPT !.MinAcceptDepth =
                                                            Val(policy.MinAcceptDepth)]
                                    ELSE r.resp]]
    /\ UNCHANGED sharedVars

\* The end of handleRequest in goroutine g
ConcReturn(g) ==
    /\ procs[g].pc = "loop"
    /\ procs[g].i > Len(config)
    /\ procs' = [procs EXCEPT ![g] =
            [@ EXCEPT !.pc = "done", !.err = NoErr,
                      !.resp = IF procs[g].req.WantsZeroConf /\ Len(config) # 0
                                THEN [@ EXCEPT !.ZeroConf = TRUE, !.MinAcceptDepth = 0]
                                ELSE @]]
    /\ UNCHANGED sharedVars

NextConc ==
    \E g \in Goroutines :
        \/ ConcEvaluate(g)
        \/ ConcReturn(g)

SpecConc == InitConc /\ [][NextConc]_vars

----------------------------------------------------------------------------
(* Properties of Policy.Evaluate (SpecUnit).  They are stated on the       *)
(* fields of the policy and of the request, not through the check          *)
(* functions of the package.                                               *)

ThePolicy == config[1]

PeerKey == peer.Node.PubKey

Elems(list) == {list[k] : k \in 1..Len(list)}

Returned == pc = "returned"

\* the conditions of the evaluated policy are absent or match
Applies ==
    \/ ThePolicy.Conditions = Nil
    \/ Conditions_Match(ThePolicy.Conditions, req, node, peer, env)

CheckOrder ==
    <<"RejectAll", "AllowList", "BlockList", "Private", "ZeroConf", "MaxChannels",
      "Request", "Node">>

ErrZeroConf == Error("Zero conf channels are not accepted")

ZeroConfAllowed ==
    /\ ThePolicy.AcceptZeroConfChannels = Some(TRUE)
    /\ \/ ThePolicy.ZeroConfList = Nil
       \/ PeerKey \in Elems(Val(ThePolicy.ZeroConfList))

\* the check called name is violated by the evaluated call
Fails(name) ==
    CASE name = "RejectAll" -> ThePolicy.RejectAll = Some(TRUE)
      [] name = "AllowList" ->
            /\ ThePolicy.AllowList # Nil
            /\ PeerKey \notin Elems(Val(ThePolicy.AllowList))
      [] name = "BlockList" ->
            /\ ThePolicy.BlockList # Nil
            /\ PeerKey \in Elems(Val(ThePolicy.BlockList))
      [] name = "Private" ->
            /\ req.ChannelFlags # FFAnnounceChannel
            /\ ThePolicy.RejectPrivateChannels = Some(TRUE)
      [] name = "ZeroConf" -> req.WantsZeroConf /\ ~ZeroConfAllowed
      [] name = "MaxChannels" ->
            /\ ThePolicy.MaxChannels # Nil
            /\ node.NumActiveChannels + node.NumInactiveChannels
                + node.NumPendingChannels >= Val(ThePolicy.MaxChannels)
      [] name = "Request" -> Request_evaluate(ThePolicy.Request, req) # NoErr
      [] name = "Node" -> Node_evaluate(ThePolicy.Node, node, peer, env) # NoErr

\* the violation the check called name reports
Violation(name) ==
    CASE name = "RejectAll" -> Error("No new channels are accepted")
      [] name = "AllowList" -> Error("Node is not allowed")
      [] name = "BlockList" -> Error("Node is blocked")
      [] name = "Private" -> Error("Private channels are not accepted")
      [] name = "ZeroConf" -> ErrZeroConf
      [] name = "MaxChannels" -> Error("Maximum number of channels reached")
      [] name = "Request" -> Request_evaluate(ThePolicy.Request, req)
      [] name = "Node" -> Node_evaluate(ThePolicy.Node, node, peer, env)

Failing == {k \in 1..Len(CheckOrder) : Fails(CheckOrder[k])}

FirstFailing == CHOOSE k \in Failing : \A j \in Failing : k <= j

\* min_accept_depth as Evaluate stages it on the response it was given
StagedDepth ==
    IF ThePolicy.MinAcceptDepth # Nil
        THEN Val(ThePolicy.MinAcceptDepth)
        ELSE resp0.MinAcceptDepth

\* C1: for a policy whose conditions are absent or match, Evaluate runs the
\* checks reject-all, allow-list, block-list, private-channel, zero-conf,
\* max-channels, Request, Node in this order, stops at the first one that
\* fails and returns its violation; it returns no error only if all of them
\* pass.
C1_FirstFailingCheckReturns ==
    (Returned /\ Applies) =>
        IF Failing = {}
            THEN err = NoErr /\ ran = CheckOrder
            ELSE /\ ran = SubSeq(CheckOrder, 1, FirstFailing)
                 /\ err = Violation(CheckOrder[FirstFailing])
                 /\ err # NoErr

\* an evaluation in which the block list and the Request rule are both
\* violated and the checks before the block list pass
C1_Witness ==
    /\ Returned
    /\ Applies
    /\ ThePolicy.AllowList # Nil
    /\ Fails("BlockList")
    /\ Fails("Request")
    /\ ran = <<"RejectAll", "AllowList", "BlockList">>
    /\ err = Error("Node is blocked")

\* C2: a policy whose conditions do not match returns no error, executes
\* none of its checks and leaves the response as it was, whatever else the
\* policy configures.
C2_MismatchSkipsPolicy ==
    (Returned /\ ~Applies) =>
        /\ err = NoErr
        /\ ran = <<>>
        /\ resp = resp0

\* a skipped policy that rejects all, configures a depth other than the
\* response's and would accept the zero-conf the request wants
C2_Witness ==
    /\ Returned
    /\ ~Applies
    /\ ThePolicy.RejectAll = Some(TRUE)
    /\ ThePolicy.MinAcceptDepth # Nil
    /\ Val(ThePolicy.MinAcceptDepth) # resp0.MinAcceptDepth
    /\ req.WantsZeroConf
    /\ ThePolicy.AcceptZeroConfChannels = Some(TRUE)
    /\ err = NoErr

InAllowList ==
    /\ ThePolicy.AllowList # Nil
    /\ PeerKey \in Elems(Val(ThePolicy.AllowList))

ZeroConfCheckRan == Len(ran) >= 5

ZeroConfCheckFailed == Len(ran) = 5

\* C4: when the request wants zero-conf, the zero-conf check passes iff
\* accept_zero_conf_channels is true and zero_conf_list is absent or holds the
\* peer's key, and a passed check leaves zero_conf = true and
\* min_accept_depth = 0 on the response, whatever depth the policy
\* configures; when the request does not want zero-conf the check passes and
\* the response is as the staging of min_accept_depth left it.
C4_ZeroConfCheck ==
    (Returned /\ Applies /\ ZeroConfCheckRan) =>
        IF req.WantsZeroConf
            THEN /\ ~ZeroConfCheckFailed <=> ZeroConfAllowed
                 /\ ~ZeroConfCheckFailed =>
                        resp.ZeroConf /\ resp.MinAcceptDepth = 0
            ELSE /\ ~ZeroConfCheckFailed
                 /\ resp = [resp0 EXCEPT !.MinAcceptDepth = StagedDepth]

\* an accepted zero-conf of a listed peer under a policy that configures a
\* non-zero depth
C4_Witness ==
    /\ Returned
    /\ Applies
    /\ req.WantsZeroConf
    /\ ThePolicy.ZeroConfList # Nil
    /\ ThePolicy.MinAcceptDepth = Some(6)
    /\ err = NoErr
    /\ resp.ZeroConf
    /\ resp.MinAcceptDepth = 0

ZeroConfRefused ==
    /\ Returned
    /\ Applies
    /\ req.WantsZeroConf
    /\ ThePolicy.AcceptZeroConfChannels = Some(FALSE)
    /\ \A k \in 1..4 : ~Fails(CheckOrder[k])

\* C5 as claimed: a refused zero-conf leaves the response exactly as it was
\* before the call.
C5_RefusalLeavesResponse ==
    ZeroConfRefused => err = ErrZeroConf /\ resp = resp0

\* C5 as amended: a refused zero-conf returns the zero-conf violation and
\* leaves zero_conf as it was; min_accept_depth is as it was unless the
\* policy configures min_accept_depth, which is then already written to the
\* response.
C5_RefusalKeepsStagedDepth ==
    ZeroConfRefused =>
        /\ err = ErrZeroConf
        /\ resp = [resp0 EXCEPT !.MinAcceptDepth = StagedDepth]

\* a refused zero-conf under a policy that configures a depth
C5_Witness ==
    /\ ZeroConfRefused
    /\ ThePolicy.MinAcceptDepth = Some(6)
    /\ resp0.MinAcceptDepth = 3
    /\ resp.MinAcceptDepth = 6
    /\ ~resp.ZeroConf

OnlyMinAcceptDepth ==
    /\ ThePolicy.MinAcceptDepth # Nil
    /\ ThePolicy = [NoPolicy EXCEPT !.MinAcceptDepth = ThePolicy.MinAcceptDepth]

\* C6 as claimed: a policy that configures min_accept_depth = d and nothing
\* else accepts every request and leaves min_accept_depth = d.
C6_DepthOnlyAcceptsAll ==
    (Returned /\ OnlyMinAcceptDepth) =>
        /\ err = NoErr
        /\ resp.MinAcceptDepth = Val(ThePolicy.MinAcceptDepth)

\* C6 as amended: such a policy accepts every request that does not want
\* zero-conf, whatever the peer and the local node, and leaves
\* min_accept_depth = d; a request that wants zero-conf is rejected with the
\* zero-conf violation, min_accept_depth = d being written all the same.
C6_DepthOnlyAcceptsUnlessZeroConf ==
    (Returned /\ OnlyMinAcceptDepth) =>
        /\ resp.MinAcceptDepth = Val(ThePolicy.MinAcceptDepth)
        /\ resp.ZeroConf = resp0.ZeroConf
        /\ err = IF req.WantsZeroConf THEN ErrZeroConf ELSE NoErr

\* a private channel request accepted by a depth-only policy that overwrites
\* the depth of the response
C6_Witness ==
    /\ Returned
    /\ OnlyMinAcceptDepth
    /\ ~req.WantsZeroConf
    /\ req.ChannelFlags # FFAnnounceChannel
    /\ resp0.MinAcceptDepth = 3
    /\ resp.MinAcceptDepth = 6
    /\ err = NoErr

----------------------------------------------------------------------------
(* Properties of handleRequest (Spec). *)

\* the node and the peer information of the request have been fetched
Fetched == peer # NoPeer

RECURSIVE RespAfter(_)
\* the response after the first k policies have returned no error: each
\* policy is given the response its predecessors left
RespAfter(k) ==
    IF k = 0 THEN resp0
    ELSE LET r == Policy_Evaluate(config[k], req, RespAfter(k - 1), node, peer, env).resp
         IN IF config[k].MinAcceptDepth # Nil
                THEN [r EXCEPT !.MinAcceptDepth = Val(config[k].MinAcceptDepth)]
                ELSE r

\* the results policy k can return for the request in hand
PolicyErrs(k) ==
    {Policy_Evaluate(config[k], req, resp0, node, peer, e).err : e \in Envs}

\* C7: the policies are evaluated in the order of the configuration, each
\* once, on the request, node and peer of the call and on the response its
\* predecessors left; the first error ends the evaluation and is the error
\* of the rejection, no later policy having been evaluated; when every policy
\* returns no error the request is accepted.
C7_FirstErrorEndsEvaluation ==
    (Fetched /\ pc \in {"loop", "reply"}) =>
        /\ Len(evals) <= Len(config)
        /\ \A k \in 1..Len(evals) : evals[k] \in PolicyErrs(k)
        /\ \A k \in 1..(Len(evals) - 1) : evals[k] = NoErr
        /\ pc = "loop" =>
            /\ Len(evals) = i - 1
            /\ \A k \in 1..Len(evals) : evals[k] = NoErr
            /\ resp = RespAfter(i - 1)
        /\ pc = "reply" =>
            IF evals # <<>> /\ evals[Len(evals)] # NoErr
                THEN /\ err = evals[Len(evals)]
                     /\ ~Completed.Accept
                     /\ Completed.Error = err
                ELSE /\ Len(evals) = Len(config)
                     /\ err = NoErr
                     /\ Completed.Accept
                     /\ Completed.Error = NoErr

\* a rejection by the first of two policies whose second policy would have
\* returned no error
C7_Witness ==
    /\ Fetched
    /\ pc = "reply"
    /\ Len(config) = 2
    /\ evals = <<Error("Node is blocked")>>
    /\ NoErr \in PolicyErrs(2)
    /\ ~Completed.Accept

\* an acceptance after two policies, the second of which has seen the depth
\* the first one left
C7_WitnessAccepted ==
    /\ Fetched
    /\ pc = "reply"
    /\ evals = <<NoErr, NoErr>>
    /\ config[1].MinAcceptDepth = Some(3)
    /\ config[2].MinAcceptDepth = Nil
    /\ ~req.WantsZeroConf
    /\ Completed.Accept
    /\ Completed.MinAcceptDepth = 3

\* C8: with no policy configured every request whose node and peer
\* information was fetched is accepted, and min_accept_depth and zero_conf
\* of the response are those of the new response, also when the request
\* wants zero-conf.
C8_EmptyListAccepts ==
    (Fetched /\ config = <<>> /\ pc = "reply") =>
        /\ err = NoErr
        /\ Completed.Accept
        /\ Completed.Error = NoErr
        /\ Completed.ZeroConf = resp0.ZeroConf
        /\ Completed.MinAcceptDepth = resp0.MinAcceptDepth
        /\ ~Completed.ZeroConf
        /\ Completed.MinAcceptDepth = 0

\* a zero-conf request answered under an empty configuration
C8_Witness ==
    /\ Fetched
    /\ config = <<>>
    /\ pc = "reply"
    /\ req.WantsZeroConf
    /\ Completed.Accept
    /\ ~Completed.ZeroConf

----------------------------------------------------------------------------
(* Properties of Conditions.Match (SpecUnit). *)

TheConditions == Val(ThePolicy.Conditions)

\* what Match is to return for the call in hand
ExpectedMatch ==
    IF ThePolicy.Conditions = Nil THEN TRUE
    ELSE IF TheConditions.Is # Nil /\ PeerKey \in Elems(Val(TheConditions.Is))
        THEN TRUE
    ELSE IF TheConditions.IsNot # Nil /\ PeerKey \in Elems(Val(TheConditions.IsNot))
        THEN FALSE
    ELSE /\ \/ TheConditions.IsPrivate = Nil
            \/ Val(TheConditions.IsPrivate) = (req.ChannelFlags # FFAnnounceChannel)
         /\ \/ TheConditions.WantsZeroConf = Nil
            \/ Val(TheConditions.WantsZeroConf) = req.WantsZeroConf
         /\ Request_evaluate(TheConditions.Request, req) = NoErr
         /\ Node_evaluate(TheConditions.Node, node, peer, env) = NoErr

NotInIsList ==
    /\ ThePolicy.Conditions # Nil
    /\ TheConditions.Is # Nil
    /\ PeerKey \notin Elems(Val(TheConditions.Is))

\* C10: when the conditions specify an is list that does not hold the peer's
\* key, the conditions do not match and the policy is skipped: Match returns
\* false, and Evaluate returns no error without running a check or changing
\* the response.
C10_IsListExcludesOthers ==
    NotInIsList =>
        /\ pc = "matched" => ~matched
        /\ Returned => (err = NoErr /\ ran = <<>> /\ resp = resp0)

----------------------------------------------------------------------------
(* Properties of the stream loop (Spec). *)

\* handleRequest has returned before the policies were evaluated: one of the
\* two calls that fetch the node and the peer information has failed
FetchFailed == pc = "reply" /\ ~Fetched

\* the texts of the rule violations that are the same for every policy
RuleViolations ==
    {Error("No new channels are accepted"), Error("Node is not allowed"),
     Error("Node is blocked"), Error("Private channels are not accepted"),
     ErrZeroConf, Error("Maximum number of channels reached")}

\* C19: when fetching the local node information or the peer node
\* information fails, the response for the request is a rejection whose
\* error is the generic internal error, which is no rule violation and holds
\* nothing of the failure underneath.
C19_FetchFailureIsGeneric ==
    FetchFailed =>
        /\ ~Completed.Accept
        /\ Completed.Error = Error("Internal server error")
        /\ Completed.Error \notin RuleViolations
        /\ \A cause \in RpcFailures : cause \notin Elems(Completed.Error)

\* the loop has ended with the error of a failed receive or send
StoppedByStream ==
    /\ pc = "stopped"
    /\ Len(err) = 2
    /\ err[1] \in {"receiving channel request", "sending channel response"}

\* the response sent last answers its request: it has the pending channel id
\* of the request, and it accepts with no error text or rejects with one
AnswersItsRequest ==
    sent # Nil =>
        LET request == Val(sent).request
            response == Val(sent).response
        IN /\ response.PendingChanId = request.PendingChanId
           /\ response.Accept <=> response.Error = NoErr

\* what is sent for the request at hand is what handleRequest returned:
\* Accept with no error text if it returned no error, the error text and no
\* Accept otherwise
RepliesWhatWasReturned ==
    pc = "reply" =>
        /\ Completed.PendingChanId = req.PendingChanId
        /\ err = NoErr => Completed.Accept /\ Completed.Error = NoErr
        /\ err # NoErr => ~Completed.Accept /\ Completed.Error = err

\* C20: handleChannelRequests answers every request it receives with one
\* response before it receives the next; the response has the pending
\* channel id of the request, Accept and no error text if and only if
\* handleRequest returned no error, and no Accept and the error text
\* otherwise; the loop ends only when a receive or a send fails.
C20_EveryRequestAnswered ==
    /\ AnswersItsRequest
    /\ RepliesWhatWasReturned
    /\ pc \in {"recv", "fetch", "loop", "reply", "stopped"}
    /\ pc = "stopped" => StoppedByStream

----------------------------------------------------------------------------
(* Properties of the functions of the package called directly (SpecCalls). *)

\* the call of the function called fn has returned
ReturnedFrom(fn) == call.fn = fn /\ call.rets # <<>>

\* v is outside the optional range r
Outside(r, v) ==
    /\ r # Nil
    /\ \/ Val(r).Min # Nil /\ v < Val(Val(r).Min)
       \/ Val(r).Max # Nil /\ v > Val(Val(r).Max)

\* the reason a range gives for a value outside it
ReasonOf(r) ==
    IF r = Nil THEN <<>>
    ELSE IF Val(r).Min # Nil /\ Val(r).Max # Nil
        THEN <<"is not between", Val(Val(r).Min), "and", Val(Val(r).Max)>>
    ELSE IF Val(r).Min # Nil THEN <<"is lower than", Val(Val(r).Min)>>
    ELSE <<"is higher than", Val(Val(r).Max)>>

\* the fields of a Request rule in the order in which evaluate is to check
\* them: the range, the value of the request it bounds, the violation
RequestFields ==
    LET R == Val(call.r)
        m == call.req
    IN <<[range |-> R.ChannelCapacity, value |-> m.FundingAmt,
          violation |-> <<"Channel capacity">> \o ReasonOf(R.ChannelCapacity)],
         [range |-> R.PushAmount, value |-> m.PushAmt,
          violation |-> <<"Pushed amount lower than expected">>],
         [range |-> R.ChannelReserve, value |-> m.ChannelReserve,
          violation |-> <<"Channel reserve">> \o ReasonOf(R.ChannelReserve)],
         [range |-> R.CSVDelay, value |-> m.CsvDelay,
          violation |-> <<"Check sequence verify delay">> \o ReasonOf(R.CSVDelay)],
         [range |-> R.MaxAcceptedHTLCs, value |-> m.MaxAcceptedHtlcs,
          violation |-> <<"Maximum accepted HTLCs">> \o ReasonOf(R.MaxAcceptedHTLCs)],
         [range |-> R.MinHTLC, value |-> m.MinHtlc,
          violation |-> <<"Minimum HTLCs">> \o ReasonOf(R.MinHTLC)],
         [range |-> R.MaxValueInFlight, value |-> m.MaxValueInFlight,
          violation |-> <<"Maximum value in flight">> \o ReasonOf(R.MaxValueInFlight)],
         [range |-> R.DustLimit, value |-> m.DustLimit,
          violation |-> <<"Commitment transaction dust limit">> \o ReasonOf(R.DustLimit)]>>

FailingFields ==
    {k \in 1..Len(RequestFields) :
        Outside(RequestFields[k].range, RequestFields[k].value)}

FirstFailingField == CHOOSE k \in FailingFields : \A j \in FailingFields : k <= j

CommitmentTypeExcluded ==
    /\ Val(call.r).CommitmentTypes # Nil
    /\ call.req.CommitmentType \notin Elems(Val(Val(call.r).CommitmentTypes))

\* C11: Request.evaluate returns no error for a nil Request; otherwise it
\* returns the violation of the first field, in the order channel capacity,
\* push amount, channel reserve, CSV delay, max accepted HTLCs, min HTLC, max
\* value in flight, dust limit, whose configured range excludes the request's
\* value; if there is none, the commitment-type violation when the
\* configured types do not hold the request's type; and no error otherwise.
\* An unconfigured range and an absent type set exclude nothing.
C11_FirstFailingFieldReturns ==
    ReturnedFrom("Request.evaluate") =>
        call.rets[1] =
            IF call.r = Nil THEN NoErr
            ELSE IF FailingFields # {}
                THEN RequestFields[FirstFailingField].violation
            ELSE IF CommitmentTypeExcluded
                THEN <<"Commitment type is not in", Val(Val(call.r).CommitmentTypes)>>
            ELSE NoErr

\* a request outside the push-amount range and every range after it, and
\* inside the configured channel-capacity range
C11_Witness ==
    /\ ReturnedFrom("Request.evaluate")
    /\ call.r # Nil
    /\ Val(call.r).ChannelCapacity # Nil
    /\ FailingFields = 2..8
    /\ CommitmentTypeExcluded
    /\ call.rets = <<Error("Pushed amount lower than expected")>>

\* v is within the bounds of the range r, both inclusive
Within(r, v) ==
    /\ r.Min = Nil \/ v >= Val(r.Min)
    /\ r.Max = Nil \/ v <= Val(r.Max)

\* C12: Range.Contains(v) is true iff min is unset or v >= min, and max is
\* unset or v <= max; a range without bounds contains every value, and check
\* on a nil range is true (on another range it is Contains).
C12_ContainsIsInclusive ==
    /\ ReturnedFrom("Range.Contains") =>
        /\ call.rets[1] = Within(call.r, call.v)
        /\ call.r = NoRange => call.rets[1]
    /\ ReturnedFrom("check") =>
        call.rets[1] = (call.r = Nil \/ Within(Val(call.r), call.v))

\* a value on both bounds of a range is contained
C12_Witness ==
    /\ ReturnedFrom("Range.Contains")
    /\ call.r.Min = Some(call.v)
    /\ call.r.Max = Some(call.v)
    /\ call.rets = <<TRUE>>

\* the value of every channel edge of the peer of the call, as the routing
\* policy of the given direction publishes it
PerChannel(f(_)) ==
    [k \in 1..Len(call.peer.Channels) |-> f(call.peer.Channels[k])]

\* the statistic of the values is outside the optional StatRange sr
StatOutside(T, sr, values) ==
    sr # Nil /\ ~StatRange_Contains(T, Val(sr), values, call.env.order)

\* The checks of a Node rule in the order in which evaluate is to run them:
\* whether the peer of the call fails the check, and the violation
NodeChecksOf(n) ==
    LET p == call.peer
    IN <<[fails |-> ~Node_checkAge(n, call.node.BlockHeight, p.Channels),
          violation |-> <<"Node age">> \o ReasonOf(n.Age)],
         [fails |-> Outside(n.Capacity, p.TotalCapacity),
          violation |-> <<"Node capacity">> \o ReasonOf(n.Capacity)],
         [fails |-> ~Node_checkHybrid(n, p.Node.Addresses),
          violation |-> <<"Node doesn't have both clearnet and tor addresses">>],
         [fails |-> ~Node_checkFeatureFlags(n, p.Node.Features),
          violation |-> <<"Node doesn't have the desired feature flags">>]>>

StatReasonOf(sr) == IF sr = Nil THEN <<>> ELSE StatRange_Reason(Val(sr))

ChannelsChecksOf(c) ==
    LET p == call.peer
        key == p.Node.PubKey
        now == call.env.now
    IN <<[fails |-> Outside(c.Number, p.NumChannels),
          violation |-> <<"Node number of channels">> \o ReasonOf(c.Number)],
         [fails |-> StatOutside("int64", c.Capacity, PerChannel(capacityFunc)),
          violation |-> <<"Capacity">> \o StatReasonOf(c.Capacity)],
         [fails |-> ~Channels_checkZeroBaseFees(c, p),
          violation |-> <<"Node has channels with base fees higher than zero">>],
         [fails |-> StatOutside("uint32", c.BlockHeight, PerChannel(blockHeightFunc)),
          violation |-> <<"Block height">> \o StatReasonOf(c.BlockHeight)],
         [fails |-> StatOutside("uint32", c.TimeLockDelta,
                        PerChannel(LAMBDA x : timeLockDeltaFunc(p, x))),
          violation |-> <<"Time lock delta">> \o StatReasonOf(c.TimeLockDelta)],
         [fails |-> StatOutside("int64", c.MinHTLC,
                        PerChannel(LAMBDA x : minHTLCFunc(p, x))),
          violation |-> <<"Channels minimum HTLC">> \o StatReasonOf(c.MinHTLC)],
         [fails |-> StatOutside("uint64", c.MaxHTLC,
                        PerChannel(LAMBDA x : maxHTLCFunc(p, x))),
          violation |-> <<"Channels maximum HTLC">> \o StatReasonOf(c.MaxHTLC)],
         [fails |-> StatOutside("uint32", c.LastUpdateDiff,
                        PerChannel(LAMBDA x : lastUpdateFunc(p, now, x))),
          violation |-> <<"Channels last update">> \o StatReasonOf(c.LastUpdateDiff)],
         [fails |-> ~Channels_checkTogether(c, call.node.IdentityPubkey, p),
          violation |-> <<"Channels together">> \o ReasonOf(c.Together)],
         [fails |-> StatOutside("int64", c.IncomingFeeRates,
                        PerChannel(LAMBDA x : feeRatesFunc(p, FALSE, x))),
          violation |-> <<"Incoming fee rates">> \o StatReasonOf(c.IncomingFeeRates)],
         [fails |-> StatOutside("int64", c.OutgoingFeeRates,
                        PerChannel(LAMBDA x : feeRatesFunc(p, TRUE, x))),
          violation |-> <<"Outgoing fee rates">> \o StatReasonOf(c.OutgoingFeeRates)],
         [fails |-> StatOutside("int64", c.IncomingBaseFees,
                        PerChannel(LAMBDA x : baseFeesFunc(p, FALSE, x))),
          violation |-> <<"Incoming base fees">> \o StatReasonOf(c.IncomingBaseFees)],
         [fails |-> StatOutside("int64", c.OutgoingBaseFees,
                        PerChannel(LAMBDA x : baseFeesFunc(p, TRUE, x))),
          violation |-> <<"Outgoing base fees">> \o StatReasonOf(c.OutgoingBaseFees)],
         [fails |-> StatOutside("int32", c.IncomingInboundFeeRates,
                        PerChannel(LAMBDA x : inboundFeeRatesFunc(p, FALSE, x))),
          violation |-> <<"Incoming inbound fee rates">>
                            \o StatReasonOf(c.IncomingInboundFeeRates)],
         [fails |-> StatOutside("int32", c.OutgoingInboundFeeRates,
                        PerChannel(LAMBDA x : inboundFeeRatesFunc(p, TRUE, x))),
          violation |-> <<"Outgoing inbound fee rates">>
                            \o StatReasonOf(c.OutgoingInboundFeeRates)],
         [fails |-> StatOutside("int32", c.IncomingInboundBaseFees,
                        PerChannel(LAMBDA x : inboundBaseFeesFunc(p, FALSE, x))),
          violation |-> <<"Incoming inbound base fees">>
                            \o StatReasonOf(c.IncomingInboundBaseFees)],
         [fails |-> StatOutside("int32", c.OutgoingInboundBaseFees,
                        PerChannel(LAMBDA x : inboundBaseFeesFunc(p, TRUE, x))),
          violation |-> <<"Outgoing inbound base fees">>
                            \o StatReasonOf(c.OutgoingInboundBaseFees)],
         [fails |-> ~Channels_checkIncomingDisabled(c, p, call.env.order),
          violation |-> <<"Incoming disabled channels">>
                            \o StatReasonOf(c.IncomingDisabled)],
         [fails |-> ~Channels_checkOutgoingDisabled(c, p, call.env.order),
          violation |-> <<"Outgoing disabled channels">>
                            \o StatReasonOf(c.OutgoingDisabled)]>>

\* the node checks followed by the channels checks, if there are any
AllNodeChecks ==
    IF call.n = Nil THEN <<>>
    ELSE NodeChecksOf(Val(call.n)) \o
            (IF Val(call.n).Channels = Nil THEN <<>>
             ELSE ChannelsChecksOf(Val(Val(call.n).Channels)))

FailingNodeChecks == {k \in 1..Len(AllNodeChecks) : AllNodeChecks[k].fails}

FirstFailingNodeCheck ==
    CHOOSE k \in FailingNodeChecks : \A j \in FailingNodeChecks : k <= j

\* C13: Node.evaluate runs node age, node capacity, hybrid, feature flags and
\* then the Channels checks number, capacity, zero base fees, block height,
\* time-lock delta, min HTLC, max HTLC, last update, together, incoming and
\* outgoing fee rates, base fees, inbound fee rates, inbound base fees,
\* incoming and outgoing disabled; it returns the violation of the first of
\* them that fails and no error if none does: a nil Node, nil Channels and
\* an unconfigured check fail nothing.
C13_FirstFailingNodeCheckReturns ==
    ReturnedFrom("Node.evaluate") =>
        call.rets[1] =
            IF FailingNodeChecks = {} THEN NoErr
            ELSE AllNodeChecks[FirstFailingNodeCheck].violation

\* a peer that fails the zero-base-fees check and the sixteen checks after
\* it, and passes the six configured checks before it
C13_Witness ==
    /\ ReturnedFrom("Node.evaluate")
    /\ call.n # Nil
    /\ Val(call.n).Age # Nil
    /\ Val(call.n).Hybrid # Nil
    /\ Val(call.n).Channels # Nil
    /\ Val(Val(call.n).Channels).Capacity # Nil
    /\ FailingNodeChecks = 7..23
    /\ call.rets = <<Error("Node has channels with base fees higher than zero")>>

\* the host of the address, which is what precedes its first colon, ends in
\* .onion
OnionHost(address) ==
    \E k \in 1..Len(address.Addr) :
        /\ address.Addr[k] = ".onion"
        /\ \A j \in 1..k : address.Addr[j] # ":"
        /\ k = Len(address.Addr) \/ address.Addr[k + 1] = ":"

\* the addresses are those of a hybrid peer
IsHybrid(addresses) ==
    /\ \E k \in 1..Len(addresses) : OnionHost(addresses[k])
    /\ \E k \in 1..Len(addresses) : ~OnionHost(addresses[k])

\* C14: with hybrid configured, checkHybrid passes iff the configured value
\* equals "the peer has an address whose host ends in .onion and one whose
\* host does not": hybrid=false passes for tor-only, clearnet-only and
\* address-less peers and fails for hybrid ones.  With hybrid unconfigured
\* the check passes.
C14_HybridCheck ==
    ReturnedFrom("Node.checkHybrid") =>
        call.rets[1] =
            \/ call.n.Hybrid = Nil
            \/ Val(call.n.Hybrid) = IsHybrid(call.addresses)

\* hybrid=false passes for a peer with onion addresses only
C14_Witness ==
    /\ ReturnedFrom("Node.checkHybrid")
    /\ call.n.Hybrid = Some(FALSE)
    /\ Len(call.addresses) = 2
    /\ \A k \in 1..2 : OnionHost(call.addresses[k])
    /\ call.rets = <<TRUE>>

\* the routing policy the peer of the call publishes for the channel: that of
\* the endpoint that is the peer
PublishedByPeer(channel) ==
    IF channel.Node1Pub = call.peer.Node.PubKey
        THEN Val(channel.Node1Policy)
        ELSE Val(channel.Node2Policy)

AllBaseFeesZero ==
    \A k \in 1..Len(call.peer.Channels) :
        PublishedByPeer(call.peer.Channels[k]).FeeBaseMsat = 0

\* C15: with zero_base_fees = true the check passes iff the base fee the peer
\* publishes is exactly 0 msat on every channel; with zero_base_fees = false
\* or absent the check passes whatever the base fees are.
C15_ZeroBaseFeesOnlyIfTrue ==
    ReturnedFrom("Channels.checkZeroBaseFees") =>
        call.rets[1] =
            IF call.c.ZeroBaseFees = Some(TRUE) THEN AllBaseFeesZero ELSE TRUE

\* the policy of the call configures max_channels and nothing else
OnlyMaxChannels ==
    /\ call.fn = "Policy.Evaluate"
    /\ call.p.MaxChannels # Nil
    /\ call.p = [NoPolicy EXCEPT !.MaxChannels = call.p.MaxChannels]

\* the number of channels of the local node
ChannelCount ==
    call.node.NumActiveChannels + call.node.NumInactiveChannels
        + call.node.NumPendingChannels

\* C16: with max_channels configured Evaluate rejects with the
\* maximum-channels violation exactly when active + inactive + pending
\* channels, summed as numbers, reach max_channels, whatever values the three
\* counters hold.
C16_MaxChannelsCountsTrueSum ==
    OnlyMaxChannels =>
        \A k \in 1..Len(call.rets) :
            call.rets[k].err =
                IF ChannelCount >= Val(call.p.MaxChannels)
                    THEN Error("Maximum number of channels reached")
                    ELSE NoErr

\* C17: evaluations of the same policy on the same request, node and peer
\* information, started from equal responses, return the same error and leave
\* the same response: the result depends neither on the clock nor on the
\* order in which a map is visited.
C17_EvaluationIsDeterministic ==
    call.fn = "Policy.Evaluate" =>
        \A j, k \in 1..Len(call.rets) : call.rets[j] = call.rets[k]

----------------------------------------------------------------------------
(* Properties of concurrent evaluations (SpecConc). *)

RECURSIVE AloneFrom(_, _, _, _)
\* the error and the response of evaluating the policies from the k-th on
\* for the request rq of the peer pr, alone, on the response rs
AloneFrom(k, rq, pr, rs) ==
    IF k > Len(config)
        THEN [err |-> NoErr,
              resp |-> IF rq.WantsZeroConf /\ Len(config) # 0
                        THEN [rs EXCEPT !.ZeroConf = TRUE, !.MinAcceptDepth = 0]
                        ELSE rs]
    ELSE LET r == Policy_Evaluate(config[k], rq, rs, node, pr, NoEnv)
         IN IF r.err # NoErr THEN [err |-> r.err, resp |-> r.resp]
            ELSE AloneFrom(k + 1, rq, pr,
                    IF config[k].MinAcceptDepth # Nil
                        THEN [r.resp EXCEPT !.MinAcceptDepth = Val(config[k].MinAcceptDepth)]
                        ELSE r.resp)

\* what goroutine g is to end with
Alone(g) ==
    AloneFrom(1, procs[g].req, procs[g].peer,
              [NoResponse EXCEPT !.PendingChanId = procs[g].req.PendingChanId])

\* every finished goroutine has the result of evaluating its request alone
SameAsAlone ==
    \A g \in Goroutines :
        procs[g].pc = "done" =>
            /\ procs[g].err = Alone(g).err
            /\ procs[g].resp = Alone(g).resp

\* a step of a goroutine changes the locals of that goroutine alone, and of
\* these neither the request nor the peer information; the policy list and
\* the node information stay as they are
WritesOwnResponseOnly ==
    /\ config' = config
    /\ node' = node
    /\ \A g \in Goroutines :
        /\ procs'[g].req = procs[g].req
        /\ procs'[g].peer = procs[g].peer
    /\ \E g \in Goroutines : \A h \in Goroutines \ {g} : procs'[h] = procs[h]

OldestHeight(channels) ==
    CHOOSE h \in {ShiftRight40(channels[k].ChannelId) : k \in 1..Len(channels)} :
        \A k \in 1..Len(channels) : h <= ShiftRight40(channels[k].ChannelId)

\* the age the rule is to test: that of the oldest channel, 0 without one
AgeOf(bestBlockHeight, channels) ==
    IF Len(channels) = 0 THEN 0
    ELSE bestBlockHeight - OldestHeight(channels) + 1

\* C21: with age configured, the age tested against the range is
\* bestBlockHeight - (lowest channelId >> 40 of the peer's channels) + 1 for
\* every best height and every set of channel heights, a channel above the
\* best height included; with no channels the age tested is 0.
C21_AgeIsHeightDifference ==
    ReturnedFrom("Node.checkAge") /\ call.n.Age # Nil =>
        call.rets[1] = Within(Val(call.n.Age), AgeOf(call.bestBlockHeight, call.channels))

\* the peer of the call is one end of the channel of the call and not both
PeerIsOneEnd ==
    (call.peerPublicKey = call.channel.Node1Pub) # (call.peerPublicKey = call.channel.Node2Pub)

\* the routing policy of the end of the channel that is the peer, and that
\* of the other end
PolicyOfPeer ==
    IF call.peerPublicKey = call.channel.Node1Pub
        THEN call.channel.Node1Policy
        ELSE call.channel.Node2Policy

PolicyOfOther ==
    IF call.peerPublicKey = call.channel.Node1Pub
        THEN call.channel.Node2Policy
        ELSE call.channel.Node1Policy

\* C22: for a channel edge of which the peer is exactly one end, getNodePolicy
\* returns the routing policy of the peer's end for outgoing=true and that of
\* the other end for outgoing=false, so that the other direction selects the
\* policy of the other end.
C22_DirectionSelectsEnd ==
    ReturnedFrom("getNodePolicy") /\ PeerIsOneEnd =>
        /\ call.outgoing => call.rets[1] = PolicyOfPeer
        /\ ~call.outgoing => call.rets[1] = PolicyOfOther
        /\ getNodePolicy(call.peerPublicKey, call.channel, ~call.outgoing) =
                IF call.outgoing THEN PolicyOfOther ELSE PolicyOfPeer
        /\ PolicyOfPeer # PolicyOfOther =>
                getNodePolicy(call.peerPublicKey, call.channel, ~call.outgoing)
                    # call.rets[1]

\* the incoming direction of a channel whose second end is the peer is the
\* policy of the first end
C22_Witness ==
    /\ ReturnedFrom("getNodePolicy")
    /\ ~call.outgoing
    /\ call.peerPublicKey = "k1"
    /\ call.channel.Node1Pub = "k3"
    /\ call.channel.Node2Pub = "k1"
    /\ call.channel.Node1Policy = Some(PolicyOfNode1)
    /\ call.channel.Node2Policy = Some(PolicyOfNode2)
    /\ call.rets = <<Some(PolicyOfNode1)>>

\* the call reduces the list of a peer without channel edges
OfNoChannels == ReturnedFrom("StatRange.Contains") /\ call.values = <<>>

\* C23 as stated: for a peer with no channel edges every operation reduces
\* the empty list to 0, so that a check with a min bound fails and a check
\* with only a max bound passes.
C23_EmptyFailsMinPassesMax ==
    OfNoChannels =>
        /\ call.a.Min # Nil => call.rets[1] = FALSE
        /\ call.a.Min = Nil /\ call.a.Max # Nil => call.rets[1] = TRUE

\* C23: for a peer with no channel edges every operation (mean, median, mode,
\* range, none) reduces the empty list to 0: the check passes iff 0 is within
\* the bounds, so that it fails for a min bound above 0 and for a max bound
\* below 0, and passes for a min bound of 0 or less and a max bound of 0 or
\* more.
C23_EmptyReducesToZero ==
    OfNoChannels =>
        /\ call.rets[1] = Within(call.a, 0)
        /\ call.a.Min # Nil /\ Val(call.a.Min) > 0 => call.rets[1] = FALSE
        /\ call.a.Min = Nil /\ call.a.Max # Nil /\ Val(call.a.Max) >= 0 =>
                call.rets[1] = TRUE

\* a median rule with min: 0 passes for a peer without channels
C23_Witness ==
    /\ OfNoChannels
    /\ call.a = [Operation |-> "median", Min |-> Some(0), Max |-> Nil]
    /\ call.rets = <<TRUE>>

\* sum(values) / count(values), truncated toward zero; 0 for no values
MeanOf(values) ==
    IF Len(values) = 0 THEN 0 ELSE GoDiv(SumSeq(values), Len(values))

\* C24: with the operation mean, or with none, Contains tests the bounds
\* against sum(values) / count(values), truncated for the integer types
\* (mean([4,6,11]) = 7, mean([4,6,10]) = 6); a list of one value a reduces to
\* a.
C24_MeanIsSumOverCount ==
    /\ ReturnedFrom("mean") =>
        /\ call.rets[1] = MeanOf(call.values)
        /\ Len(call.values) = 1 => call.rets[1] = call.values[1]
    /\ ReturnedFrom("StatRange.Contains") /\ call.a.Operation \in {"", "mean"} =>
        call.rets[1] = Within(call.a, MeanOf(call.values))

\* the k-th smallest of the values, counted with repetitions
KthSmallest(values, k) ==
    CHOOSE v \in KeysOf(values) :
        /\ Cardinality({j \in 1..Len(values) : values[j] < v}) < k
        /\ Cardinality({j \in 1..Len(values) : values[j] <= v}) >= k

\* the middle of the values in ascending order, or the truncated average of
\* the two in the middle; 0 for no values
MedianOf(values) ==
    LET l == Len(values)
    IN IF l = 0 THEN 0
       ELSE IF l % 2 = 1 THEN KthSmallest(values, (l + 1) \div 2)
       ELSE GoDiv(KthSmallest(values, l \div 2) + KthSmallest(values, (l \div 2) + 1), 2)

\* C25: median returns the middle element of the values in ascending order
\* for a list of odd length and the truncated average of the two central
\* elements for one of even length (median([1,4,5,7,8,12]) = 6,
\* median([1,4,5,7,8,12,13]) = 7), in whatever order the values are given.
C25_MedianIsMiddle ==
    ReturnedFrom("median") => call.rets[1] = MedianOf(call.values)

\* the values of the list that occur in it most often
MostFrequent(values) ==
    {v \in KeysOf(values) : \A w \in KeysOf(values) : Count(values, w) <= Count(values, v)}

\* C26: mode of a non-empty list returns a value of the list that occurs in
\* it most often, whatever the order in which the map is visited; if one
\* value alone occurs most often the result is that value, and two calls
\* differ only if several values tie for the highest count.
C26_ModeIsMostFrequent ==
    ReturnedFrom("mode") /\ call.values # <<>> =>
        /\ \A j \in 1..Len(call.rets) : call.rets[j] \in MostFrequent(call.values)
        /\ Cardinality(MostFrequent(call.values)) = 1 =>
                \A j \in 1..Len(call.rets) : MostFrequent(call.values) = {call.rets[j]}
        /\ \A j, k \in 1..Len(call.rets) :
                call.rets[j] # call.rets[k] => Cardinality(MostFrequent(call.values)) > 1

\* two calls for a list in which three values tie return one and another
C26_Witness ==
    /\ ReturnedFrom("mode")
    /\ call.values = <<4, 1, 6>>
    /\ call.rets = <<6, 1>>

----------------------------------------------------------------------------
(* Properties of the response of handleRequest (Spec). *)

\* handleRequest has returned no error: the response is an acceptance
Accepted == pc = "reply" /\ Fetched /\ err = NoErr

\* the conditions of the k-th policy of the list are absent or match
AppliesAt(k) ==
    \/ config[k].Conditions = Nil
    \/ Conditions_Match(config[k].Conditions, req, node, peer, NoEnv)

\* an applying policy of the list accepts zero-conf channels
ZeroConfGranted ==
    \E k \in 1..Len(config) :
        AppliesAt(k) /\ config[k].AcceptZeroConfChannels = Some(TRUE)

\* C27: an accepted response has zero_conf=true only if the request wanted
\* zero-conf and a policy whose conditions are absent or match has
\* accept_zero_conf_channels=true; an accepted response with zero_conf=true
\* has min_accept_depth 0, whatever the policies configure as depth.
C27_ZeroConfOnlyIfGranted ==
    Accepted /\ Completed.ZeroConf =>
        /\ req.WantsZeroConf
        /\ ZeroConfGranted
        /\ Completed.MinAcceptDepth = 0

\* the policies of the list that apply and configure min_accept_depth
DepthSetters ==
    {k \in 1..Len(config) : AppliesAt(k) /\ config[k].MinAcceptDepth # Nil}

\* the depth of the last of them, or that of the response as created
LastAppliedDepth ==
    IF DepthSetters = {} THEN resp0.MinAcceptDepth
    ELSE Val(config[CHOOSE k \in DepthSetters : \A j \in DepthSetters : j <= k].MinAcceptDepth)

\* C28: for a request that does not want zero-conf and that the whole list
\* accepts, the min_accept_depth of the final response is that of the last
\* policy in list order that applies and configures it, and the initial
\* value of the response if there is none; a policy skipped by its
\* conditions contributes nothing.
C28_DepthOfLastApplyingPolicy ==
    Accepted /\ ~req.WantsZeroConf =>
        Completed.MinAcceptDepth = LastAppliedDepth

----------------------------------------------------------------------------
(* Properties of a rejecting Policy.Evaluate (SpecUnit). *)

\* Evaluate has rejected the request at one of the checks of the policy
Rejected == Returned /\ Applies /\ err # NoErr

\* the zero-conf check has come to its write to the response
ZeroConfWritten ==
    /\ ZeroConfCheckRan
    /\ req.WantsZeroConf
    /\ ThePolicy.AcceptZeroConfChannels = Some(TRUE)

\* the rejection is that of a peer missing from zero_conf_list
RejectedNotInList == Rejected /\ ZeroConfCheckFailed /\ ZeroConfWritten

\* C29: a rejecting Evaluate does not roll the response back.  At whatever
\* check after the conditions gate it rejects, a configured min_accept_depth
\* has been written to the response, which is otherwise as it was, unless the
\* zero-conf check has written zero_conf=true and min_accept_depth=0 over it;
\* a rejection of a peer that is not in zero_conf_list, under
\* accept_zero_conf_channels=true, leaves zero_conf=true and
\* min_accept_depth=0.
C29_RejectionKeepsWrites ==
    /\ Rejected /\ ~ZeroConfWritten =>
            resp = [resp0 EXCEPT !.MinAcceptDepth = StagedDepth]
    /\ Rejected /\ ZeroConfWritten =>
            resp = [resp0 EXCEPT !.ZeroConf = TRUE, !.MinAcceptDepth = 0]
    /\ RejectedNotInList =>
            /\ err = ErrZeroConf
            /\ PeerKey \notin Elems(Val(ThePolicy.ZeroConfList))
            /\ resp.ZeroConf
            /\ resp.MinAcceptDepth = 0

\* a peer missing from zero_conf_list is rejected under a policy that
\* configures a depth, and the response that had neither has zero_conf=true
\* and depth 0
C29_Witness ==
    /\ RejectedNotInList
    /\ ThePolicy.MinAcceptDepth = Some(6)
    /\ ~resp0.ZeroConf
    /\ resp0.MinAcceptDepth = 3
    /\ resp.ZeroConf
    /\ resp.MinAcceptDepth = 0

----------------------------------------------------------------------------
(* Properties of Channels.evaluate for channels without a routing policy   *)
(* (SpecCalls).                                                            *)

\* the checks of a Channels rule that read a routing policy of every
\* channel, in the order of evaluate, and the direction each reads
ReadingChecks ==
    <<[field |-> "ZeroBaseFees", outgoing |-> TRUE],
      [field |-> "TimeLockDelta", outgoing |-> TRUE],
      [field |-> "MinHTLC", outgoing |-> TRUE],
      [field |-> "MaxHTLC", outgoing |-> TRUE],
      [field |-> "LastUpdateDiff", outgoing |-> TRUE],
      [field |-> "IncomingFeeRates", outgoing |-> FALSE],
      [field |-> "OutgoingFeeRates", outgoing |-> TRUE],
      [field |-> "IncomingBaseFees", outgoing |-> FALSE],
      [field |-> "OutgoingBaseFees", outgoing |-> TRUE],
      [field |-> "IncomingInboundFeeRates", outgoing |-> FALSE],
      [field |-> "OutgoingInboundFeeRates", outgoing |-> TRUE],
      [field |-> "IncomingInboundBaseFees", outgoing |-> FALSE],
      [field |-> "OutgoingInboundBaseFees", outgoing |-> TRUE],
      [field |-> "IncomingDisabled", outgoing |-> FALSE],
      [field |-> "OutgoingDisabled", outgoing |-> TRUE]>>

\* the routing policy of the channel in the direction: that the peer of the
\* call publishes (outgoing) or that of the other end
PolicyIn(channel, outgoing) ==
    IF (call.peer.Node.PubKey = channel.Node1Pub) = outgoing
        THEN channel.Node1Policy
        ELSE channel.Node2Policy

\* the configured check meets a channel without the policy it reads: any
\* channel for a statistic, which reads all of them; for zero base fees one
\* before which every channel has a base fee of zero
MeetsAbsent(reading) ==
    /\ call.c[reading.field] # Nil
    /\ \E k \in 1..Len(call.peer.Channels) :
        /\ PolicyIn(call.peer.Channels[k], reading.outgoing) = Nil
        /\ reading.field = "ZeroBaseFees" =>
            \A j \in 1..(k - 1) :
                /\ PolicyIn(call.peer.Channels[j], TRUE) # Nil
                /\ Val(PolicyIn(call.peer.Channels[j], TRUE)).FeeBaseMsat = 0

ReadsPolicies == \E k \in 1..Len(ReadingChecks) : call.c[ReadingChecks[k].field] # Nil

\* the peer of the call with a routing policy in place of every absent one
WithPolicies ==
    [call.peer EXCEPT !.Channels =
        [k \in 1..Len(call.peer.Channels) |->
            [call.peer.Channels[k] EXCEPT
                !.Node1Policy = IF @ = Nil THEN Some(RoutingPolicy) ELSE @,
                !.Node2Policy = IF @ = Nil THEN Some(RoutingPolicy) ELSE @]]]

\* the rule on the number of channels, which evaluate checks first, rejects
NumberRejects == Outside(call.c.Number, call.peer.NumChannels)

EvaluateEnded ==
    /\ call.fn = "Channels.evaluate"
    /\ call.fault \/ call.rets # <<>>

\* C30: a configured check that reads a routing policy of the channels and
\* meets a channel whose policy in the direction it reads is absent ends the
\* evaluation in a runtime fault, not in an acceptance or a rule violation;
\* the evaluation faults for no other reason, and with no such check
\* configured the result is that for the same peer with every policy present.
C30_AbsentPolicyFaults ==
    EvaluateEnded =>
        /\ ~NumberRejects /\ (\E k \in 1..Len(ReadingChecks) : MeetsAbsent(ReadingChecks[k]))
                => call.fault
        /\ call.fault => \E k \in 1..Len(ReadingChecks) : MeetsAbsent(ReadingChecks[k])
        /\ NumberRejects =>
                call.rets = <<<<"Node number of channels">> \o ReasonOf(call.c.Number)>>
        /\ ~ReadsPolicies =>
                /\ ~call.fault
                /\ call.rets =
                    <<Channels_evaluate(Some(call.c), call.nodePublicKey, WithPolicies, NoEnv)>>

\* a rule on the incoming fee rates faults on the second of two channels, of
\* which the other end has no routing policy while the peer has one
C30_Witness ==
    /\ EvaluateEnded
    /\ call.fault
    /\ call.c.IncomingFeeRates # Nil
    /\ Len(call.peer.Channels) = 2
    /\ PolicyIn(call.peer.Channels[1], FALSE) # Nil
    /\ PolicyIn(call.peer.Channels[2], FALSE) = Nil
    /\ PolicyIn(call.peer.Channels[2], TRUE) # Nil

====
